---- MODULE Spec2Model ----
(***************************************************************************)
(* A model of the Aura negotiation service (zaebee/aura):                  *)
(*   - the outbound Membrane (core-service/src/hive/membrane.py) and the   *)
(*     guard path (core-service/src/guard/membrane.py, dspy_strategy.py);  *)
(*   - the Market deal state machine (core-service/src/services/market.py) *)
(*     with the Solana payment verifier and Core's single event loop;      *)
(*   - the crypto lock of an accepted offer (hive/connector.py);           *)
(*   - the gateway's signature verification (api-gateway/src/security.py). *)
(*   - the system-health cache (hive/aggregator.py, monitor.py);            *)
(*   - NegotiationService.Negotiate over the pricing strategies and the    *)
(*     Hive pipeline MetabolicLoop.execute (hive/metabolism.py);           *)
(*   - verify_payment of the Solana provider (crypto/solana_provider.py).  *)
(* Money is counted in whole price units (cents); percentages are kept as  *)
(* integers over 100 so that every comparison of the source is exact.      *)
(***************************************************************************)
EXTENDS Integers, Sequences, FiniteSets, TLC

VARIABLES
    \* ---- Membrane / guard ----
    item,        \* the item of the request: floor_price, base_price, internal_cost
    min_margin,  \* settings.logic.min_margin, in percent
    decision,    \* what the Reasoner proposed (IntentAction / response dict)
    safe,        \* what left the Membrane (or the guard path)
    mpc,         \* position of the request: "think", "inspect", "done"
    \* ---- Market / CryptoProvider ----
    now,         \* the clock, datetime.now(UTC)
    deals,       \* the locked_deals table: deal id -> LockedDeal row
    chain,       \* finalized transactions naming the provider's address, oldest first
    calls,       \* the check_status coroutines in Core's event loop
    lastResp,    \* the CheckDealStatusResponse returned last, with the call's facts
    paidSeen,    \* per deal: the first PAID response returned for it
    \* ---- Connector ----
    settings,    \* settings.crypto and whether a MarketService is configured
    conn,        \* the Connector's request: position, decision, response
    \* ---- API Gateway ----
    signedReq,   \* the request an agent signed with AgentWallet.sign_request
    wire,        \* the HTTP request presented to the gateway
    gwClock,     \* time.time() when the gateway verified it, in ticks
    gwOut,       \* what the gateway did with it
    \* ---- Telemetry cache ----
    telImpl,     \* the reader a run follows: "aggregator" or "monitor"
    telClock,    \* time.time(), in ticks
    metricsCache,\* MetricsCache: _cache and _timestamp
    telReads,    \* the system-health reads in flight: reader -> position
    telFilled,   \* the snapshot stored by the last MetricsCache.set, and when
    telLast,     \* the read that returned last, with its facts
    \* ---- Negotiate: the strategies and the Hive pipeline ----
    negReq,      \* the request and the deployment: strategy, item store, trigger price
    negPc,       \* position of the request in NegotiationService / MetabolicLoop
    negCtx,      \* the signal after inspect_inbound and the HiveContext's item_data
    negIntent,   \* the Reasoner's outcome, and the Intent before and after the Membrane
    negOut,      \* the RPC's status and response, and whether a deal was created
    negTrace,    \* the stages of MetabolicLoop.execute that ran, in order
    negActed,    \* the Intent that connector.act was called with
    \* ---- verify_payment ----
    payIn,       \* a call of verify_payment: its arguments, the transaction, the RPC
    payProof     \* what the call returned

membraneVars == <<item, min_margin, decision, safe, mpc>>
marketVars == <<now, deals, chain, calls, lastResp, paidSeen>>
connVars == <<settings, conn>>
gatewayVars == <<signedReq, wire, gwClock, gwOut>>
telemetryVars == <<telImpl, telClock, metricsCache, telReads, telFilled, telLast>>
negotiateVars == <<negReq, negPc, negCtx, negIntent, negOut, negTrace, negActed>>
verifyVars == <<payIn, payProof>>

vars == <<item, min_margin, decision, safe, mpc,
          now, deals, chain, calls, lastResp, paidSeen,
          settings, conn,
          signedReq, wire, gwClock, gwOut,
          telImpl, telClock, metricsCache, telReads, telFilled, telLast,
          negReq, negPc, negCtx, negIntent, negOut, negTrace, negActed,
          payIn, payProof>>

(***************************************************************************)
(* Bounds of the model.                                                    *)
(***************************************************************************)
MaxFloor == 10
MaxPrice == 11

(***************************************************************************)
(* Program constants, as integers over 100.                                *)
(***************************************************************************)
\* DEFAULT_MIN_MARGIN = 0.1
DEFAULT_MIN_MARGIN == 10
\* SafetySettings.min_profit_margin = 0.10
min_profit_margin == 10
\* SafetySettings.max_discount_percent = 0.30
max_discount_percent == 30
\* floor_price * 1.05 in inspect_outbound
SafeMarkup == 105

\* a message is a sequence of words
NoMessage == <<>>

NoIntent == [action |-> "none", price |-> 0, message |-> NoMessage, addon |-> FALSE,
             reason |-> "", via |-> "none"]

\* internal_cost is optional item metadata: "absent" or a cost
Items ==
    {[floor_price |-> f, base_price |-> b, internal_cost |-> c] :
        f \in 1..MaxFloor, b \in 1..MaxPrice, c \in (0..MaxFloor) \cup {-1}}

ValidItem(i) == i.floor_price <= i.base_price /\ i.internal_cost <= i.floor_price

\* settings.logic.min_margin values a deployment may configure (150: invalid)
MarginSettings == {0, 10, 50, 150}

ReasonerActions == {"accept", "counter", "reject", "ui_required"}

\* messages a Reasoner may write: without the name of the field, with it in
\* lower case, and with it in other letter cases
ReasonerMessages ==
    {<<"we", "can", "meet", "your", "price">>,
     <<"my", "floor_price", "is", "fixed">>,
     <<"FLOOR_PRICE", "reached">>,
     <<"the", "Floor_Price", "binds">>}

\* str.lower() of a word
LowerWord(w) ==
    CASE w = "FLOOR_PRICE" -> "floor_price"
      [] w = "Floor_Price" -> "floor_price"
      [] w = "I've" -> "i've"
      [] w = "My" -> "my"
      [] w = "I" -> "i"
      [] w = "Internal" -> "internal"
      [] w = "Defaulting" -> "defaulting"
      [] OTHER -> w

\* message.lower()
Lower(msg) == [i \in DOMAIN msg |-> LowerWord(msg[i])]

\* "floor_price" in text
HasFloorPrice(text) == \E i \in DOMAIN text : text[i] = "floor_price"

\* An IntentAction of the Reasoner;
\* addon: the message names an add-on that is not in allowed_addons.
Proposals ==
    {[action |-> a, price |-> p, message |-> l, addon |-> d, reason |-> "", via |-> "reasoner"] :
        a \in ReasonerActions, p \in 0..MaxPrice, l \in ReasonerMessages, d \in BOOLEAN}

\* FailureIntent: action "error", price 0.0, fixed message
FailureIntent ==
    [action |-> "error", price |-> 0,
     message |-> <<"Internal", "processing", "error.", "Defaulting", "to", "safe", "state.">>,
     addon |-> FALSE, reason |-> "", via |-> "reasoner"]

(***************************************************************************)
(* round(x, 2) of a price num/den: the nearest whole unit, ties to even.   *)
(***************************************************************************)
Round2(num, den) ==
    LET q == num \div den
        r == num % den
    IN  IF 2 * r < den THEN q
        ELSE IF 2 * r > den THEN q + 1
        ELSE IF q % 2 = 0 THEN q ELSE q + 1

\* an override that turns the Intent into a counter at the price it came with
OverrideKeepingPrice(original, num, den, reason) ==
    [action |-> "counter", price |-> original.price,
     message |-> <<"I've", "reached", "my", "final", "limit", "for", "this", "item.",
                   "My", "best", "offer", "is", "$", ToString(original.price)>>,
     addon |-> FALSE, reason |-> reason, via |-> "hive"]

\* HiveMembrane._override_with_safe_offer(original, safe_price = num/den, reason)
OverrideWithSafeOffer(original, num, den, reason) ==
    [action |-> "counter", price |-> Round2(num, den),
     message |-> <<"I've", "reached", "my", "final", "limit", "for", "this", "item.",
                   "My", "best", "offer", "is", "$", ToString(Round2(num, den))>>,
     addon |-> FALSE, reason |-> reason, via |-> "hive"]

\* min_margin after the range check of Rule 3
EffectiveMargin(m) == IF 0 <= m /\ m < 100 THEN m ELSE DEFAULT_MIN_MARGIN

\* the fixed phrase of Rule 1
DlpPhrase ==
    <<"I've", "reviewed", "the", "offer,", "and", "I've", "provided", "my", "best",
      "possible", "response.", "I", "cannot", "disclose", "internal", "pricing",
      "details.">>

\* Rule 1 (DLP): the message is replaced when it contains "floor_price"
DlpScrub(d) ==
    IF HasFloorPrice(Lower(d.message))
    THEN [d EXCEPT !.message = DlpPhrase, !.via = "hive"]
    ELSE [d EXCEPT !.via = "hive"]

\* Rule 2: decision.price < floor_price
FloorRuleHive(d, floor) == d.price < floor

\* HiveMembrane.inspect_outbound(decision, context)
InspectOutboundOf(d, it, m) ==
    LET floor == it.floor_price
        mm    == EffectiveMargin(m)
    IN  IF d.action = "error"
        THEN OverrideWithSafeOffer(d, floor * SafeMarkup, 100, "FAILURE_RECOVERY")
        ELSE LET s == DlpScrub(d)
             IN  IF s.action \notin {"accept", "counter"} THEN s
                 ELSE IF FloorRuleHive(s, floor)
                 THEN OverrideWithSafeOffer(s, floor * SafeMarkup, 100,
                                            "FLOOR_PRICE_VIOLATION")
                 \* required_min_price = floor_price / (1 - min_margin)
                 ELSE IF s.price * (100 - mm) < floor * 100
                 THEN OverrideWithSafeOffer(s, floor * 100, 100 - mm,
                                            "MIN_MARGIN_VIOLATION")
                 ELSE s

(***************************************************************************)
(* The guard path: DSPyStrategy.evaluate with OutputGuard.validate_decision*)
(***************************************************************************)
\* context["internal_cost"] = meta.get("internal_cost", floor_price * 0.8), times 10
CostTimes10(it) ==
    IF it.internal_cost = -1 THEN 8 * it.floor_price ELSE 10 * it.internal_cost

\* 4. Floor Price Violation: only an accept is checked
FloorRuleGuard(d, floor) == d.action = "accept" /\ d.price < floor

\* OutputGuard.validate_decision: the violation raised, or "ok"
ValidateDecision(d, it) ==
    LET c10 == CostTimes10(it)
    IN  IF d.price <= 0 /\ d.action \in {"accept", "counter"}
        THEN "Invalid offered price"
        \* margin = (offered_price - internal_cost) / internal_cost < min_profit_margin
        ELSE IF c10 > 0 /\ (10 * d.price - c10) * 100 < min_profit_margin * c10
        THEN "Economic suicide attempt"
        ELSE IF FloorRuleGuard(d, it.floor_price)
        THEN "Floor price breach"
        \* discount = (base_price - offered_price) / base_price > max_discount_percent
        ELSE IF it.base_price > 0 /\ d.action \in {"accept", "counter"}
                /\ (it.base_price - d.price) * 100 > max_discount_percent * it.base_price
        THEN "Discount limit exceeded"
        ELSE IF d.action \in {"accept", "counter"} /\ d.addon
        THEN "Unauthorized addon mentioned"
        ELSE "ok"

\* DSPyStrategy.create_safe_counter_offer: a counter at item.floor_price
CreateSafeCounterOffer(it) ==
    [action |-> "counter", price |-> it.floor_price,
     message |-> <<"I've", "reached", "my", "limit", "on", "this", "item.",
                   "My", "best", "offer", "is", ToString(it.floor_price)>>,
     addon |-> FALSE, reason |-> "GUARDRAIL_INTERVENTION", via |-> "guard"]

\* DSPyStrategy.evaluate after the prediction: the response it maps to
GuardEvaluateOf(d, it) ==
    IF d.action = "error"
    THEN [NoIntent EXCEPT !.action = "fallback", !.via = "guard"]
    ELSE IF ValidateDecision(d, it) # "ok" THEN CreateSafeCounterOffer(it)
    \* accepted and rejected carry no message; countered.human_message = message
    ELSE IF d.action = "accept"
    THEN [d EXCEPT !.message = NoMessage, !.reason = "", !.via = "guard"]
    ELSE IF d.action = "counter"
    THEN [d EXCEPT !.reason = "NEGOTIATION_ONGOING", !.via = "guard"]
    ELSE IF d.action = "reject"
    THEN [d EXCEPT !.price = 0, !.message = NoMessage, !.reason = "OFFER_TOO_LOW",
                   !.via = "guard"]
    ELSE [NoIntent EXCEPT !.action = "fallback", !.via = "guard"]

(***************************************************************************)
(* Actions of the Membrane specification.                                  *)
(***************************************************************************)
MembraneStart ==
    /\ item \in {i \in Items : ValidItem(i)}
    /\ min_margin \in MarginSettings
    /\ decision = NoIntent
    /\ safe = NoIntent
    /\ mpc = "think"

\* the Membrane at rest, for the specifications of the other components
MembraneIdle ==
    /\ item = [floor_price |-> 1, base_price |-> 1, internal_cost |-> -1]
    /\ min_margin = DEFAULT_MIN_MARGIN
    /\ decision = NoIntent
    /\ safe = NoIntent
    /\ mpc = "idle"

\* AuraTransformer.think / the DSPy prediction: any Intent, or a failure
Think ==
    /\ mpc = "think"
    /\ decision' \in Proposals \cup {FailureIntent}
    /\ mpc' = "inspect"
    /\ UNCHANGED <<item, min_margin, safe>>
    /\ UNCHANGED <<marketVars, connVars, gatewayVars, telemetryVars, negotiateVars, verifyVars>>

\* MetabolicLoop.execute step 4: membrane.inspect_outbound(decision, context)
InspectOutbound ==
    /\ mpc = "inspect"
    /\ safe' = InspectOutboundOf(decision, item, min_margin)
    /\ mpc' = "done"
    /\ UNCHANGED <<item, min_margin, decision>>
    /\ UNCHANGED <<marketVars, connVars, gatewayVars, telemetryVars, negotiateVars, verifyVars>>

\* DSPyStrategy.evaluate: guard.validate_decision and the response mapping
GuardEvaluate ==
    /\ mpc = "inspect"
    /\ safe' = GuardEvaluateOf(decision, item)
    /\ mpc' = "done"
    /\ UNCHANGED <<item, min_margin, decision>>
    /\ UNCHANGED <<marketVars, connVars, gatewayVars, telemetryVars, negotiateVars, verifyVars>>

\* the next request on the item
NextRequest ==
    /\ mpc = "done"
    /\ decision' = NoIntent
    /\ safe' = NoIntent
    /\ mpc' = "think"
    /\ UNCHANGED <<item, min_margin>>
    /\ UNCHANGED <<marketVars, connVars, gatewayVars, telemetryVars, negotiateVars, verifyVars>>

MembraneNext == Think \/ InspectOutbound \/ GuardEvaluate \/ NextRequest

(***************************************************************************)
(* Market and CryptoProvider.                                              *)
(* Amounts are counted in units of 0.00005 of the currency, block time in  *)
(* slots; datetimes are compared as instants.                              *)
(***************************************************************************)
MaxDeals == 1
MaxCalls == 2
MaxTx == 3
MaxNow == 2
\* settings.crypto.deal_ttl_seconds, in clock ticks of the model
DealTtl == 1
\* the amount of every deal of the model
DealAmount == 4

\* AMOUNT_TOLERANCE = 0.0001
AMOUNT_TOLERANCE == 2
\* _get_recent_signatures(limit=100), scaled to the model's chain length
SignatureLimit == 2

DealIds == 1..MaxDeals
CallIds == 1..MaxCalls

\* settings.crypto.currency
Currency == "SOL"

\* the payment_memo create_offer gives deal d (unique index on payment_memo)
MemoOf(d) == d
\* the reservation code locked in deal d
SecretOf(d) == d + 100

\* SecretEncryption.encrypt / decrypt (Fernet under the process key)
Encrypt(plaintext) == <<"fernet", plaintext>>
Decrypt(ciphertext) == ciphertext[2]

\* a memo no deal of the Market carries
ForeignMemo == MemoOf(0)

\* the transfers that reach the provider's address in the model: the payment
\* of a deal, a payment of the first deal that is short of its amount by the
\* tolerance, and a transfer with a memo of somebody else
TxKinds ==
    {[memos |-> {MemoOf(d)}, currency |-> "SOL", amount |-> DealAmount] : d \in DealIds}
    \cup {[memos |-> {MemoOf(1)}, currency |-> "SOL", amount |-> DealAmount - AMOUNT_TOLERANCE],
          [memos |-> {ForeignMemo}, currency |-> "SOL", amount |-> DealAmount]}

NoDeal ==
    [status |-> "NONE", final_price |-> 0, currency |-> "", payment_memo |-> 0,
     secret_content |-> <<"fernet", 0>>, expires_at |-> 0, transaction_hash |-> 0,
     block_number |-> 0, from_address |-> "", paid_at |-> 0]

NoProof == [found |-> FALSE, transaction_hash |-> 0, block_number |-> 0,
            from_address |-> "", confirmed_at |-> 0]

Abs(x) == IF x < 0 THEN -x ELSE x

\* a memo test that is content with any memo
HasAnyMemo(tx, expected_memo) == tx.memos # {}

\* SolanaProvider._has_memo: an spl-memo instruction equal to the expected memo
HasMemo(tx, expected_memo) == expected_memo \in tx.memos

\* SolanaProvider._has_sol_transfer: our balance change against the expected amount
HasSolTransfer(tx, expected_amount) ==
    tx.currency = "SOL" /\ Abs(tx.amount - expected_amount) < AMOUNT_TOLERANCE

\* SolanaProvider._has_usdc_transfer: an spl-token transfer to our token account
HasUsdcTransfer(tx, expected_amount) ==
    tx.currency = "USDC" /\ Abs(tx.amount - expected_amount) < AMOUNT_TOLERANCE

\* SolanaProvider._is_matching_payment
IsMatchingPayment(tx, expected_amount, expected_memo, currency) ==
    IF ~HasMemo(tx, expected_memo) THEN FALSE
    ELSE IF currency = "SOL" THEN HasSolTransfer(tx, expected_amount)
    ELSE IF currency = "USDC" THEN HasUsdcTransfer(tx, expected_amount)
    ELSE FALSE

\* SolanaProvider._get_recent_signatures: the newest `limit` signatures, newest
\* first; a signature is the transaction's position in the chain
RecentSignatures(ch) ==
    [i \in 1..(IF Len(ch) < SignatureLimit THEN Len(ch) ELSE SignatureLimit) |->
        Len(ch) + 1 - i]

\* SolanaProvider._extract_payment_proof
ExtractPaymentProof(sig) ==
    [found |-> TRUE, transaction_hash |-> sig, block_number |-> sig,
     from_address |-> "payer", confirmed_at |-> sig]

\* SolanaProvider.verify_payment: the first match among the recent signatures
VerifyPayment(ch, amount, memo, currency) ==
    LET sigs == RecentSignatures(ch)
        hits == {i \in DOMAIN sigs : IsMatchingPayment(ch[sigs[i]], amount, memo, currency)}
    IN  IF hits = {} THEN NoProof
        ELSE LET first == CHOOSE i \in hits : \A j \in hits : i <= j
             IN  ExtractPaymentProof(sigs[first])

\* the arguments check_status passes to verify_payment
VerifyFor(ch, deal) ==
    VerifyPayment(ch, deal.final_price, deal.payment_memo, deal.currency)

NoSecret == 0

\* MarketService._build_paid_response
BuildPaidResponse(deal) ==
    [status |-> "PAID", reservation_code |-> Decrypt(deal.secret_content),
     final_price |-> deal.final_price, paid_at |-> deal.paid_at,
     transaction_hash |-> deal.transaction_hash, block_number |-> deal.block_number,
     from_address |-> deal.from_address, confirmed_at |-> deal.paid_at,
     instructions |-> FALSE]

\* a response that carries neither secret nor proof
BareResponse(status, withInstructions) ==
    [status |-> status, reservation_code |-> NoSecret, final_price |-> 0, paid_at |-> 0,
     transaction_hash |-> 0, block_number |-> 0, from_address |-> "", confirmed_at |-> 0,
     instructions |-> withInstructions]

\* MarketService._build_pending_response
BuildPendingResponse(deal) == BareResponse("PENDING", TRUE)

IdleCall == [pc |-> "idle", deal |-> 0, pastExpiry |-> FALSE, afterPaid |-> FALSE,
             matchAtStart |-> FALSE]

\* deal: the deal asked for; resp: the response; the rest are the facts of the
\* call: the row's status and whether now > expires_at when it read the row,
\* whether a PAID response had been returned before, whether it called
\* verify_payment and whether the RPCs of that call succeeded, and whether a
\* matching payment was on chain when the call started
NoResp == [deal |-> 0, resp |-> BareResponse("NONE", FALSE),
           preStatus |-> "NONE", pastExpiry |-> FALSE, afterPaid |-> FALSE,
           verified |-> FALSE, rpcOk |-> FALSE, matchAtStart |-> FALSE]

NoPaid == BareResponse("NONE", FALSE)

\* the expiry test that reads a PAID row as expired too
IsExpiredAnyStatus(deal, t) == t > deal.expires_at

\* the expiry test that is late by one tick
IsExpiredLate(deal, t) == deal.status = "PENDING" /\ t > deal.expires_at + 1

\* check_status: if deal.status == DealStatus.PENDING and now > deal.expires_at
IsExpired(deal, t) == deal.status = "PENDING" /\ t > deal.expires_at

\* a blocking call in the loop's thread stops every coroutine of the loop
LoopBlocked == \E c \in CallIds : calls[c].pc = "blocked"

\* the row lock of deal d is held by a call that awaits verify_payment
RowLocked(d) == \E c \in CallIds : calls[c].pc = "awaiting" /\ calls[c].deal = d

\* a finalized transfer with the deal's memo, amount and currency is on chain
PaymentOnChain(ch, deal) ==
    \E i \in 1..Len(ch) :
        IsMatchingPayment(ch[i], deal.final_price, deal.payment_memo, deal.currency)

MarketStart ==
    /\ now = 0
    /\ deals = [d \in DealIds |-> NoDeal]
    /\ chain = <<>>
    /\ calls = [c \in CallIds |-> IdleCall]
    /\ lastResp = NoResp
    /\ paidSeen = [d \in DealIds |-> NoPaid]

\* the Market at rest, for the specifications of the other components
MarketIdle ==
    /\ now = 0
    /\ deals = [d \in DealIds |-> NoDeal]
    /\ chain = <<>>
    /\ calls = [c \in CallIds |-> IdleCall]
    /\ lastResp = NoResp
    /\ paidSeen = [d \in DealIds |-> NoPaid]

\* time passes
Tick ==
    /\ now < MaxNow
    /\ now' = now + 1
    /\ UNCHANGED <<deals, chain, calls, lastResp, paidSeen>>
    /\ UNCHANGED <<membraneVars, connVars, gatewayVars, telemetryVars, negotiateVars, verifyVars>>

\* a transaction naming the provider's address is finalized
Transfer ==
    /\ Len(chain) < MaxTx
    /\ \E k \in TxKinds :
        \* a deal's memo is known to a payer only once the deal exists
        /\ \A d \in DealIds : MemoOf(d) \in k.memos => deals[d].status # "NONE"
        /\ chain' = Append(chain, k)
    /\ UNCHANGED <<now, deals, calls, lastResp, paidSeen>>
    /\ UNCHANGED <<membraneVars, connVars, gatewayVars, telemetryVars, negotiateVars, verifyVars>>

\* the id the next deal gets, 0 when the table of the model is full
FreeDeal ==
    IF \E d \in DealIds : deals[d].status = "NONE"
    THEN CHOOSE d \in DealIds :
            deals[d].status = "NONE" /\ \A e \in DealIds : e < d => deals[e].status # "NONE"
    ELSE 0

\* MarketService.create_offer: the LockedDeal row it commits
NewDeal(d, secret, price, currency, t, ttl_seconds) ==
    [status |-> "PENDING", final_price |-> price, currency |-> currency,
     payment_memo |-> MemoOf(d), secret_content |-> Encrypt(secret),
     expires_at |-> t + ttl_seconds, transaction_hash |-> 0,
     block_number |-> 0, from_address |-> "", paid_at |-> 0]

\* MarketService.create_offer: the CryptoPaymentInstructions it returns
PaymentInstructions(d, deal) ==
    [deal_id |-> d, wallet_address |-> "provider", amount |-> deal.final_price,
     currency |-> deal.currency, memo |-> deal.payment_memo, expires_at |-> deal.expires_at]

\* MarketService.create_offer, for an accepted offer of DealAmount
CreateOffer ==
    /\ ~LoopBlocked
    /\ FreeDeal # 0
    /\ deals' = [deals EXCEPT ![FreeDeal] =
          NewDeal(FreeDeal, SecretOf(FreeDeal), DealAmount, Currency, now, DealTtl)]
    /\ UNCHANGED <<now, chain, calls, lastResp, paidSeen>>
    /\ UNCHANGED <<membraneVars, connVars, gatewayVars, telemetryVars, negotiateVars, verifyVars>>

\* the response of a call on deal d leaves check_status
Respond(d, r, ghost) ==
    /\ lastResp' = [ghost EXCEPT !.deal = d, !.resp = r]
    /\ paidSeen' = IF r.status = "PAID" /\ paidSeen[d] = NoPaid
                   THEN [paidSeen EXCEPT ![d] = r] ELSE paidSeen

\* MarketService.check_status from the locked SELECT to the await of
\* verify_payment (or to its return, on the paths that do not verify)
CheckStatusBegin ==
    /\ ~LoopBlocked
    /\ \E c \in CallIds, d \in DealIds :
        LET deal == deals[d]
            ghost == [NoResp EXCEPT !.preStatus = deal.status,
                                    !.pastExpiry = (now > deal.expires_at),
                                    !.afterPaid = (paidSeen[d] # NoPaid)]
        IN
        /\ calls[c].pc = "idle"
        /\ \A b \in CallIds : b < c => calls[b].pc # "idle"
        /\ IF deal.status = "NONE"
           THEN /\ Respond(d, BareResponse("NOT_FOUND", FALSE), ghost)
                /\ UNCHANGED <<deals, calls>>
           ELSE IF RowLocked(d)
           THEN \* SELECT ... FOR UPDATE waits for the row, in the loop's thread
                /\ calls' = [calls EXCEPT ![c] = [IdleCall EXCEPT !.pc = "blocked", !.deal = d]]
                /\ UNCHANGED <<deals, lastResp, paidSeen>>
           ELSE IF IsExpired(deal, now)
           THEN /\ deals' = [deals EXCEPT ![d].status = "EXPIRED"]
                /\ Respond(d, BareResponse("EXPIRED", FALSE), ghost)
                /\ UNCHANGED calls
           ELSE IF deal.status = "PAID"
           THEN /\ Respond(d, BuildPaidResponse(deal), ghost)
                /\ UNCHANGED <<deals, calls>>
           ELSE IF deal.status = "PENDING"
           THEN /\ calls' = [calls EXCEPT ![c] =
                      [pc |-> "awaiting", deal |-> d,
                       pastExpiry |-> (now > deal.expires_at),
                       afterPaid |-> (paidSeen[d] # NoPaid),
                       matchAtStart |-> PaymentOnChain(chain, deal)]]
                /\ UNCHANGED <<deals, lastResp, paidSeen>>
           ELSE /\ Respond(d, BareResponse(deal.status, FALSE), ghost)
                /\ UNCHANGED <<deals, calls>>
    /\ UNCHANGED <<now, chain>>
    /\ UNCHANGED <<membraneVars, connVars, gatewayVars, telemetryVars, negotiateVars, verifyVars>>

\* MarketService.check_status from the return of verify_payment to the response;
\* rpc_ok = FALSE: an RPC of verify_payment failed and it returned None
CheckStatusResume ==
    /\ ~LoopBlocked
    /\ \E c \in CallIds, rpc_ok \in BOOLEAN :
        LET d == calls[c].deal
            deal == deals[d]
            proof == IF rpc_ok THEN VerifyFor(chain, deal) ELSE NoProof
            ghost == [NoResp EXCEPT !.preStatus = "PENDING",
                                    !.pastExpiry = calls[c].pastExpiry,
                                    !.afterPaid = calls[c].afterPaid,
                                    !.verified = TRUE, !.rpcOk = rpc_ok,
                                    !.matchAtStart = calls[c].matchAtStart]
            paid == [deal EXCEPT !.status = "PAID",
                                 !.transaction_hash = proof.transaction_hash,
                                 !.block_number = proof.block_number,
                                 !.from_address = proof.from_address,
                                 !.paid_at = proof.confirmed_at]
        IN
        /\ calls[c].pc = "awaiting"
        /\ IF proof.found
           THEN /\ deals' = [deals EXCEPT ![d] = paid]
                /\ Respond(d, BuildPaidResponse(paid), ghost)
           ELSE /\ Respond(d, BuildPendingResponse(deal), ghost)
                /\ UNCHANGED deals
        /\ calls' = [calls EXCEPT ![c] = IdleCall]
    /\ UNCHANGED <<now, chain>>
    /\ UNCHANGED <<membraneVars, connVars, gatewayVars, telemetryVars, negotiateVars, verifyVars>>

MarketNext == Tick \/ Transfer \/ CreateOffer \/ CheckStatusBegin \/ CheckStatusResume

(***************************************************************************)
(* Settlement: several deals of equal amount, transactions that may carry  *)
(* several spl-memo instructions, and check_status calls that run one      *)
(* after another.                                                          *)
(***************************************************************************)
\* the deals of the settlement runs
NumSettleDeals == 2

SettleDealIds == 1..NumSettleDeals

\* a transfer of DealAmount to the provider's address with any memo
\* instructions: memos of deals and a memo of somebody else
SettleTxs ==
    {[memos |-> ms, currency |-> Currency, amount |-> DealAmount] :
        ms \in (SUBSET ({MemoOf(d) : d \in SettleDealIds} \cup {ForeignMemo})) \ {{}}}

SettleStart ==
    /\ now = 0
    /\ deals = [d \in SettleDealIds |-> NoDeal]
    /\ chain = <<>>
    /\ calls = [c \in CallIds |-> IdleCall]
    /\ lastResp = NoResp
    /\ paidSeen = [d \in DealIds |-> NoPaid]

\* MarketService.create_offer for the next deal
SettleCreateOffer ==
    /\ \E d \in SettleDealIds :
        /\ deals[d].status = "NONE"
        /\ \A e \in SettleDealIds : e < d => deals[e].status # "NONE"
        /\ deals' = [deals EXCEPT ![d] =
              NewDeal(d, SecretOf(d), DealAmount, Currency, now, DealTtl)]
    /\ UNCHANGED <<now, chain, calls, lastResp, paidSeen>>
    /\ UNCHANGED <<membraneVars, connVars, gatewayVars, telemetryVars, negotiateVars, verifyVars>>

\* a transaction naming the provider's address is finalized
SettleTransfer ==
    /\ Len(chain) < MaxTx
    /\ \E k \in SettleTxs :
        /\ \A d \in SettleDealIds : MemoOf(d) \in k.memos => deals[d].status # "NONE"
        /\ chain' = Append(chain, k)
    /\ UNCHANGED <<now, deals, calls, lastResp, paidSeen>>
    /\ UNCHANGED <<membraneVars, connVars, gatewayVars, telemetryVars, negotiateVars, verifyVars>>

\* MarketService.check_status on deal d, from the locked SELECT to the response,
\* with no other call in flight; rpc_ok = FALSE: verify_payment returned None
SettleCheckStatus ==
    /\ \E d \in SettleDealIds, rpc_ok \in BOOLEAN :
        LET deal == deals[d]
            proof == IF rpc_ok THEN VerifyFor(chain, deal) ELSE NoProof
        IN
        /\ deal.status # "NONE"
        /\ IF IsExpired(deal, now)
           THEN deals' = [deals EXCEPT ![d].status = "EXPIRED"]
           ELSE IF deal.status = "PENDING" /\ proof.found
           THEN deals' = [deals EXCEPT ![d] =
                    [deal EXCEPT !.status = "PAID",
                                 !.transaction_hash = proof.transaction_hash,
                                 !.block_number = proof.block_number,
                                 !.from_address = proof.from_address,
                                 !.paid_at = proof.confirmed_at]]
           ELSE UNCHANGED deals
    /\ UNCHANGED <<now, chain, calls, lastResp, paidSeen>>
    /\ UNCHANGED <<membraneVars, connVars, gatewayVars, telemetryVars, negotiateVars, verifyVars>>

SettleNext == Tick \/ SettleCreateOffer \/ SettleTransfer \/ SettleCheckStatus


(***************************************************************************)
(* Connector.  Prices are in cents of USD, crypto amounts in units of      *)
(* 0.00005 of the coin.                                                    *)
(***************************************************************************)
\* units of 0.00005 in one coin
AmountUnitsPerCoin == 2 * 10000

\* PriceConverter.FIXED_RATES, USD per coin
FIXED_RATES == [SOL |-> 100, USDC |-> 1]

\* the prices the Membrane lets through to the Connector, in cents
ConnPrices == {100, 90000}

\* PriceConverter(use_fixed_rates).convert_usd_to_crypto(usd_amount, crypto_currency)
ConvertUsdToCrypto(use_fixed_rates, usd_cents, crypto_currency) ==
    IF ~use_fixed_rates THEN [ok |-> FALSE, amount |-> 0]
    ELSE IF crypto_currency \notin DOMAIN FIXED_RATES THEN [ok |-> FALSE, amount |-> 0]
    ELSE [ok |-> TRUE,
          amount |-> (usd_cents * AmountUnitsPerCoin) \div (100 * FIXED_RATES[crypto_currency])]

NoCode == 0
\* f"HIVE-{int(time.time())}" (f"RULE-{int(time.time())}" in RuleBasedStrategy):
\* the code is determined by the second it is minted in
ReservationCode(t) == 1000 + t

\* time.time() when the clock of the model reads 0
ClockStart == 1000000000

\* len(str(n)) of a natural number
RECURSIVE Digits(_)
Digits(n) == IF n < 10 THEN 1 ELSE 1 + Digits(n \div 10)

\* len(f"HIVE-{int(time.time())}") of the code minted at t
CodeLength(code) == 5 + Digits(ClockStart + (code - 1000))

\* the accepts a run of the model follows
MaxCodes == 2

NoInstructions ==
    [deal_id |-> 0, wallet_address |-> "", amount |-> 0, currency |-> "", memo |-> 0,
     expires_at |-> 0]

NoResponse ==
    [kind |-> "none", price |-> 0, reservation_code |-> NoCode,
     crypto_payment |-> NoInstructions, reason_code |-> ""]

\* the decisions that reach the Connector
ConnDecisions ==
    {[action |-> a, price |-> p] :
        a \in {"accept", "counter", "reject", "ui_required"}, p \in ConnPrices}

\* HiveConnector.act without the crypto lock: the decision as a NegotiateResponse
MapDecision(d, t) ==
    IF d.action = "accept"
    THEN [NoResponse EXCEPT !.kind = "accepted", !.price = d.price,
                            !.reservation_code = ReservationCode(t)]
    ELSE IF d.action = "counter"
    THEN [NoResponse EXCEPT !.kind = "countered", !.price = d.price,
                            !.reason_code = "NEGOTIATION_ONGOING"]
    ELSE IF d.action = "reject"
    THEN [NoResponse EXCEPT !.kind = "rejected", !.reason_code = "OFFER_TOO_LOW"]
    ELSE [NoResponse EXCEPT !.kind = "rejected", !.reason_code = "INTERNAL_ERROR"]

\* the response a pricing strategy maps a decision to (LiteLLMStrategy.evaluate;
\* RuleBasedStrategy mints the code of an accept the same way)
StrategyResponse(d, t) ==
    IF d.action = "accept"
    THEN [NoResponse EXCEPT !.kind = "accepted", !.price = d.price,
                            !.reservation_code = ReservationCode(t)]
    ELSE IF d.action = "counter"
    THEN [NoResponse EXCEPT !.kind = "countered", !.price = d.price,
                            !.reason_code = "NEGOTIATION_ONGOING"]
    ELSE IF d.action = "reject"
    THEN [NoResponse EXCEPT !.kind = "rejected", !.reason_code = "OFFER_TOO_LOW"]
    ELSE [NoResponse EXCEPT !.kind = "ui_required"]

\* response.accepted.final_price (USD, here cents) passed to create_offer as the
\* price of the deal, read as an amount of the coin
UsdAsCoinAmount(usd_cents) == (usd_cents * AmountUnitsPerCoin) \div 100

\* the valid crypto settings (validate_crypto_config) with or without a Market;
\* service: the deployment serves Negotiate through MetabolicLoop ("hive") or
\* through NegotiationService.Negotiate over a pricing strategy ("negotiate")
ConnSettings ==
    [enabled : BOOLEAN, market : BOOLEAN, currency : {"SOL", "USDC"},
     use_fixed_rates : BOOLEAN, service : {"hive", "negotiate"}]

ConnStart ==
    /\ settings \in ConnSettings
    /\ conn = [pc |-> "idle", decision |-> [action |-> "none", price |-> 0],
               response |-> NoResponse, codes |-> <<>>]

\* the Connector at rest, for the specifications of the other components
ConnIdle ==
    /\ settings = [enabled |-> FALSE, market |-> FALSE, currency |-> "SOL",
                   use_fixed_rates |-> TRUE, service |-> "hive"]
    /\ conn = [pc |-> "idle", decision |-> [action |-> "none", price |-> 0],
               response |-> NoResponse, codes |-> <<>>]

\* a decision leaves the Membrane for the Connector
Decide ==
    /\ conn.pc \in {"idle", "done"}
    /\ Len(conn.codes) < MaxCodes
    /\ \E d \in ConnDecisions :
          conn' = [conn EXCEPT !.pc = "decided", !.decision = d, !.response = NoResponse]
    /\ UNCHANGED <<settings, membraneVars, marketVars, gatewayVars, telemetryVars, negotiateVars, verifyVars>>

\* HiveConnector.act with _handle_crypto_lock; offer_ok = FALSE: create_offer
\* raised (session, encryption or commit failed)
Act ==
    /\ conn.pc = "decided"
    /\ settings.service = "hive"
    /\ \E offer_ok \in BOOLEAN :
        LET d == conn.decision
            plain == MapDecision(d, now)
            conv == ConvertUsdToCrypto(settings.use_fixed_rates, d.price, settings.currency)
            locked == d.action = "accept" /\ settings.enabled /\ settings.market
            row == NewDeal(FreeDeal, plain.reservation_code, conv.amount,
                           settings.currency, now, DealTtl)
        IN
        \* the locked_deals table of the model has room for the offer
        /\ locked => FreeDeal # 0
        /\ IF locked /\ conv.ok /\ offer_ok
              THEN /\ deals' = [deals EXCEPT ![FreeDeal] = row]
                /\ conn' = [conn EXCEPT !.pc = "done",
                              !.response = [plain EXCEPT
                                  !.reservation_code = NoCode,
                                  !.crypto_payment = PaymentInstructions(FreeDeal, row)]]
           ELSE \* no lock asked for, or the except branch of _handle_crypto_lock
                /\ conn' = [conn EXCEPT !.pc = "done", !.response = plain,
                              !.codes = IF plain.reservation_code # NoCode
                                        THEN Append(@, plain.reservation_code) ELSE @]
                /\ UNCHANGED deals
    /\ UNCHANGED <<settings, membraneVars, gatewayVars, telemetryVars, negotiateVars, verifyVars>>
    /\ UNCHANGED <<now, chain, calls, lastResp, paidSeen>>

\* NegotiationService.Negotiate after strategy.evaluate: the crypto lock of an
\* accepted response; an accepted item is in the store; offer_ok = FALSE:
\* create_offer raised, which Negotiate does not catch
NegotiateLock ==
    /\ conn.pc = "decided"
    /\ settings.service = "negotiate"
    /\ \E offer_ok \in BOOLEAN :
        LET d == conn.decision
            plain == StrategyResponse(d, now)
            locked == d.action = "accept" /\ settings.enabled /\ settings.market
            row == NewDeal(FreeDeal, plain.reservation_code, UsdAsCoinAmount(plain.price),
                           settings.currency, now, DealTtl)
        IN
        /\ locked => FreeDeal # 0
        /\ IF locked /\ offer_ok
           THEN /\ deals' = [deals EXCEPT ![FreeDeal] = row]
                /\ conn' = [conn EXCEPT !.pc = "done",
                              !.response = [plain EXCEPT
                                  !.reservation_code = NoCode,
                                  !.crypto_payment = PaymentInstructions(FreeDeal, row)]]
           ELSE IF locked
           THEN /\ conn' = [conn EXCEPT !.pc = "done",
                                        !.response = [NoResponse EXCEPT !.kind = "error"]]
                /\ UNCHANGED deals
           ELSE /\ conn' = [conn EXCEPT !.pc = "done", !.response = plain,
                              !.codes = IF plain.reservation_code # NoCode
                                        THEN Append(@, plain.reservation_code) ELSE @]
                /\ UNCHANGED deals
    /\ UNCHANGED <<settings, membraneVars, gatewayVars, telemetryVars, negotiateVars, verifyVars>>
    /\ UNCHANGED <<now, chain, calls, lastResp, paidSeen>>

ConnNext == Decide \/ Act \/ NegotiateLock \/ Tick


(***************************************************************************)
(* API Gateway.  The clock counts ticks, TicksPerSecond to the second.     *)
(* A signature is the pair of the signing key and the signed message, a    *)
(* SHA-256 digest is its input (both taken as collision free).  A message  *)
(* is the tuple of its four parts: the routed paths end in a letter, so    *)
(* the concatenation METHOD+PATH+TIMESTAMP+HASH determines the parts.      *)
(***************************************************************************)
TicksPerSecond == 2

\* TIMESTAMP_TOLERANCE_SECONDS = 60
TIMESTAMP_TOLERANCE_SECONDS == 60

\* the agent's clock, in ticks, when it signs
SignClock == 1000 * TicksPerSecond

\* the gateway's clock when the request arrives, against the agent's
ClockOffsets ==
    {-(TIMESTAMP_TOLERANCE_SECONDS * TicksPerSecond) - 1,
     -(TIMESTAMP_TOLERANCE_SECONDS * TicksPerSecond),
     0,
     TIMESTAMP_TOLERANCE_SECONDS * TicksPerSecond,
     TIMESTAMP_TOLERANCE_SECONDS * TicksPerSecond + 1,
     (TIMESTAMP_TOLERANCE_SECONDS + 1) * TicksPerSecond}

\* int(time.time())
IntTime(ticks) == ticks \div TicksPerSecond

Paths == {"/v1/negotiate", "/v1/search"}

\* X-Agent-ID values: absent, not a DID, a DID whose key is not 32 bytes, and
\* the DIDs of the agent and of another key holder
AgentIdHeaders == {"", "agent-007", "did:key:abcd", "did:key:k1", "did:key:k2"}

\* _validate_did_format
ValidateDidFormat(did) == did \in {"did:key:abcd", "did:key:k1", "did:key:k2"}

\* nacl.signing.VerifyKey(bytes.fromhex(x_agent_id[8:]))
VerifyKeyOf(did) ==
    IF did = "did:key:k1" THEN "k1"
    ELSE IF did = "did:key:k2" THEN "k2"
    ELSE "ValueError"

\* X-Timestamp values: absent, not a number, or digits with or without a
\* leading zero
NoTimestamp == [kind |-> "missing", value |-> 0, zeros |-> 0]
TimestampHeaders ==
    {NoTimestamp, [kind |-> "text", value |-> 0, zeros |-> 0]}
    \cup {[kind |-> "digits", value |-> IntTime(SignClock) + d, zeros |-> z] :
             d \in {0, 1}, z \in {0, 1}}

\* int(x_timestamp)
IntOfTimestamp(ts) == ts.value

\* a JSON body: its parsed value and the form of its bytes
NoContent == [item_id |-> "", agent_did |-> ""]
Contents == [item_id : {"i1", "i2"}, agent_did : {"did:key:k1", "did:key:k2"}]
EmptyBody == [form |-> "empty", content |-> NoContent]
Bodies ==
    {[form |-> f, content |-> c] :
        f \in {"canonical", "reordered", "malformed", "overdeep"}, c \in Contents}
    \cup {EmptyBody}

\* json.loads(body_bytes.decode("utf-8"))
JsonLoads(body) ==
    IF body.form \in {"canonical", "reordered"} THEN [error |-> "", value |-> body.content]
    ELSE IF body.form = "malformed" THEN [error |-> "JSONDecodeError", value |-> NoContent]
    ELSE [error |-> "RecursionError", value |-> NoContent]

\* json.dumps(value, sort_keys=True, separators=(",", ":"))
JsonDumps(value) == [form |-> "canonical", content |-> value]

\* hashlib.sha256(...).hexdigest()
Sha256(bytes) == <<"sha256", bytes>>

\* f"{method}{path}{timestamp}{body_hash}"
Message(method, path, timestamp, body_hash) == <<method, path, timestamp, body_hash>>

NoSignature ==
    [kind |-> "missing", key |-> "",
     message |-> Message("", "", NoTimestamp, Sha256(EmptyBody))]
NotHexSignature == [NoSignature EXCEPT !.kind = "nothex"]

\* SigningKey.sign(message).signature, hex encoded
Sign(key, message) == [kind |-> "hex", key |-> key, message |-> message]

\* a verification that looks at the signing key only
VerifiesKeyOnly(verify_key, message, signature) ==
    signature.kind = "hex" /\ signature.key = verify_key

\* VerifyKey.verify(message, signature) does not raise BadSignatureError
Verifies(verify_key, message, signature) == signature = Sign(verify_key, message)

\* time_diff with the sign kept
TimeDiffSigned(current_time, request_time) == current_time - request_time

\* time_diff = abs(current_time - request_time)
TimeDiff(current_time, request_time) == Abs(current_time - request_time)

\* verify_signature step 5: the message reconstructed from the request
MessageOf(method, path, x_timestamp, body_hash) ==
    Message(method, path, x_timestamp, body_hash)

Reject(code) == [status |-> code, did |-> "", parsed_body |-> NoContent]

\* verify_signature
VerifySignature(req, ticks) ==
    IF req.x_agent_id = "" \/ req.x_timestamp.kind = "missing"
          \/ req.x_signature.kind = "missing"
    THEN Reject(401)
    ELSE IF ~ValidateDidFormat(req.x_agent_id) THEN Reject(401)
    ELSE IF req.x_timestamp.kind # "digits" THEN Reject(401)
    ELSE IF TimeDiff(IntTime(ticks), IntOfTimestamp(req.x_timestamp))
               > TIMESTAMP_TOLERANCE_SECONDS
    THEN Reject(401)
    ELSE IF VerifyKeyOf(req.x_agent_id) = "ValueError" THEN Reject(401)
    ELSE LET parsed == IF req.body = EmptyBody THEN [error |-> "", value |-> NoContent]
                       ELSE JsonLoads(req.body)
             body_hash == IF req.body = EmptyBody THEN Sha256(EmptyBody)
                          ELSE Sha256(JsonDumps(parsed.value))
             message == MessageOf(req.method, req.path, req.x_timestamp, body_hash)
         IN  IF parsed.error = "JSONDecodeError" THEN Reject(400)
             ELSE IF parsed.error # "" THEN Reject(500)
             ELSE IF req.x_signature.kind = "nothex" THEN Reject(401)
             ELSE IF ~Verifies(VerifyKeyOf(req.x_agent_id), message, req.x_signature)
             THEN Reject(401)
             ELSE [status |-> 200, did |-> req.x_agent_id, parsed_body |-> parsed.value]

\* the DID of the gRPC request taken from the body
ForwardedDidFromBody(agent_did, payload) == payload.agent_did

\* negotiate: AgentIdentity(did=agent_did, ...)
ForwardedDid(agent_did, payload) == agent_did

NoSigned ==
    [method |-> "", path |-> "", x_agent_id |-> "", x_timestamp |-> NoTimestamp,
     x_signature |-> NoSignature, body |-> EmptyBody]

NoOut == [presented |-> FALSE, status |-> 0, admitted |-> FALSE, handled |-> FALSE,
          forwarded |-> FALSE, forwarded_did |-> "", rpc |-> FALSE]

GatewayStart ==
    /\ signedReq = NoSigned
    /\ wire = NoSigned
    /\ gwClock = 0
    /\ gwOut = NoOut

\* AgentWallet.sign_request, by the agent that holds key k1
SignRequest ==
    /\ signedReq = NoSigned
    /\ ~gwOut.presented
    /\ \E method \in {"POST", "GET"}, path \in Paths, body \in Contents :
        LET timestamp == [kind |-> "digits", value |-> IntTime(SignClock), zeros |-> 0]
            body_hash == Sha256(JsonDumps(body))
            message == Message(method, path, timestamp, body_hash)
        IN  signedReq' = [method |-> method, path |-> path, x_agent_id |-> "did:key:k1",
                          x_timestamp |-> timestamp, x_signature |-> Sign("k1", message),
                          body |-> JsonDumps(body)]
    /\ UNCHANGED <<wire, gwClock, gwOut>>
    /\ UNCHANGED <<membraneVars, marketVars, connVars, telemetryVars, negotiateVars, verifyVars>>

\* the hash a sender computes for the body it sends
SenderHash(body) ==
    IF body = EmptyBody \/ JsonLoads(body).error # "" THEN Sha256(body)
    ELSE Sha256(JsonDumps(JsonLoads(body).value))

\* POST /v1/negotiate and POST /v1/search: verify_signature, then the handler,
\* for the one request a run of the model follows.
\* The signature on the wire is absent, not hex, the one the agent made, or one
\* the holder of key k2 makes over the request as sent.
HandleRequest ==
    /\ ~gwOut.presented
    /\ \E path \in Paths, id \in AgentIdHeaders, ts \in TimestampHeaders,
          body \in Bodies, off \in ClockOffsets, core_ok \in BOOLEAN :
       \E sig \in {NoSignature, NotHexSignature, signedReq.x_signature,
                   Sign("k2", Message("POST", path, ts, SenderHash(body)))} :
        LET req == [method |-> "POST", path |-> path, x_agent_id |-> id,
                    x_timestamp |-> ts, x_signature |-> sig, body |-> body]
            ticks == SignClock + off
            v == VerifySignature(req, ticks)
        IN
        /\ wire' = req
        /\ gwClock' = ticks
        /\ gwOut' =
            IF v.status # 200
            THEN [NoOut EXCEPT !.presented = TRUE, !.status = v.status]
            ELSE IF v.parsed_body = NoContent
            THEN \* the request model of the handler does not validate
                 [NoOut EXCEPT !.presented = TRUE, !.status = 500,
                               !.admitted = TRUE, !.handled = TRUE]
            ELSE IF path = "/v1/negotiate"
            THEN [presented |-> TRUE, status |-> IF core_ok THEN 200 ELSE 500,
                  admitted |-> TRUE, handled |-> TRUE, forwarded |-> TRUE,
                  forwarded_did |-> ForwardedDid(v.did, v.parsed_body), rpc |-> TRUE]
            ELSE [presented |-> TRUE, status |-> IF core_ok THEN 200 ELSE 500,
                  admitted |-> TRUE, handled |-> TRUE, forwarded |-> FALSE,
                  forwarded_did |-> "", rpc |-> TRUE]
    /\ UNCHANGED signedReq
    /\ UNCHANGED <<membraneVars, marketVars, connVars, telemetryVars, negotiateVars, verifyVars>>

\* GET /v1/system/status: the route declares no verify_signature dependency and
\* reads no header; it calls stub.GetSystemStatus and answers 200, or 500 on a
\* grpc.RpcError. The requests followed carry no X-Timestamp.
SystemStatus ==
    /\ ~gwOut.presented
    /\ \E id \in AgentIdHeaders, sig \in {NoSignature, NotHexSignature},
          core_ok \in BOOLEAN :
        /\ wire' = [method |-> "GET", path |-> "/v1/system/status", x_agent_id |-> id,
                    x_timestamp |-> NoTimestamp, x_signature |-> sig,
                    body |-> EmptyBody]
        /\ gwOut' = [NoOut EXCEPT !.presented = TRUE,
                                  !.status = IF core_ok THEN 200 ELSE 500,
                                  !.handled = TRUE, !.rpc = TRUE]
    /\ gwClock' = SignClock
    /\ UNCHANGED signedReq
    /\ UNCHANGED <<membraneVars, marketVars, connVars, telemetryVars, negotiateVars, verifyVars>>

GatewayNext == SignRequest \/ HandleRequest \/ SystemStatus


(***************************************************************************)
(* The telemetry cache: HiveAggregator.get_system_metrics and              *)
(* monitor.get_hive_metrics over a MetricsCache. Time is counted in        *)
(* seconds, the clock moves in ticks; metric values are in hundredths.     *)
(***************************************************************************)
TickSeconds == 10
MaxTelClock == 5
MaxMetric == 2
MaxReaders == 2

\* MetricsCache(ttl_seconds=30)
ttl_seconds == 30

ReaderIds == 1..MaxReaders

TimeOf(clock) == clock * TickSeconds

\* an empty dict / None
NoSnapshot ==
    [status |-> "", cpu_usage_percent |-> 0, memory_usage_mb |-> 0, timestamp |-> 0,
     cached |-> FALSE, warning |-> ""]

EmptyCache == [metrics |-> NoSnapshot, timestamp |-> 0]

\* what the metrics provider answers to one query: a value, an answer without
\* data, a timeout or a connection error
Outcomes ==
    {[kind |-> "value", value |-> v] : v \in 1..MaxMetric}
    \cup {[kind |-> k, value |-> 0] : k \in {"no_data", "timeout", "connect"}}

\* a cache that never expires
ExpiredNever(age, ttl) == FALSE

\* MetricsCache.get: age > self.ttl_seconds
Expired(age, ttl) == age > ttl

\* MetricsCache.get(ignore_ttl)
CacheGet(c, time, ignore_ttl) ==
    IF c.metrics = NoSnapshot THEN NoSnapshot
    ELSE IF ~ignore_ttl /\ Expired(time - c.timestamp, ttl_seconds) THEN NoSnapshot
    ELSE c.metrics

\* MetricsCache.set
CacheSet(metrics, time) == [metrics |-> metrics, timestamp |-> time]

\* HiveAggregator._process_metric_response: (value, success)
ProcessMetricResponse(o) ==
    IF o.kind = "value" THEN [value |-> o.value, success |-> TRUE]
    ELSE [value |-> 0, success |-> FALSE]

\* get_system_metrics after a cache miss: the result, the cache and the number
\* of queries sent
GetSystemMetricsFetch(c, time, cpu_o, mem_o) ==
    LET cpu == ProcessMetricResponse(cpu_o)
        mem == ProcessMetricResponse(mem_o)
        stale == CacheGet(c, time, TRUE)
        metrics == [status |-> IF cpu.success /\ mem.success THEN "ok" ELSE "PARTIAL",
                    cpu_usage_percent |-> cpu.value, memory_usage_mb |-> mem.value,
                    timestamp |-> time, cached |-> FALSE, warning |-> ""]
    IN  IF ~(cpu.success \/ mem.success)
        THEN [result |-> IF stale # NoSnapshot
                         THEN [stale EXCEPT !.cached = TRUE, !.warning = "stale_data"]
                         ELSE [NoSnapshot EXCEPT !.status = "UNKNOWN", !.timestamp = time],
              cache |-> c, filled |-> FALSE, calls |-> 2]
        ELSE [result |-> metrics, cache |-> CacheSet(metrics, time), filled |-> TRUE,
              calls |-> 2]

\* the except branches of get_hive_metrics: _metrics_cache.get(), else an error dict
HiveMetricsFailure(c, time, queries) ==
    LET cached == CacheGet(c, time, FALSE)
    IN  IF cached # NoSnapshot
        THEN [result |-> [cached EXCEPT !.cached = TRUE],
              cache |-> [c EXCEPT !.metrics.cached = TRUE], filled |-> FALSE,
              calls |-> queries]
        ELSE [result |-> [NoSnapshot EXCEPT !.status = "error", !.timestamp = time],
              cache |-> c, filled |-> FALSE, calls |-> queries]

\* get_hive_metrics after a cache miss: the two queries are sent in turn
GetHiveMetricsFetch(c, time, cpu_o, mem_o) ==
    LET metrics == [status |-> "ok",
                    cpu_usage_percent |-> cpu_o.value, memory_usage_mb |-> mem_o.value,
                    timestamp |-> time, cached |-> FALSE, warning |-> ""]
    IN  IF cpu_o.kind \in {"timeout", "connect"} THEN HiveMetricsFailure(c, time, 1)
        ELSE IF mem_o.kind \in {"timeout", "connect"} THEN HiveMetricsFailure(c, time, 2)
        ELSE [result |-> metrics, cache |-> CacheSet(metrics, time), filled |-> TRUE,
              calls |-> 2]

NoFill == [snapshot |-> NoSnapshot, at |-> 0]

NoRead ==
    [done |-> FALSE, result |-> NoSnapshot, calls |-> 0, failedAll |-> FALSE,
     startFill |-> NoSnapshot, startAge |-> 0, endFill |-> NoSnapshot]

IdleRead == [pc |-> "idle", start |-> 0, startFill |-> NoFill]

TelemetryStart ==
    /\ telImpl \in {"aggregator", "monitor"}
    /\ telClock = 0
    /\ metricsCache = EmptyCache
    /\ telReads = [r \in ReaderIds |-> IdleRead]
    /\ telFilled = NoFill
    /\ telLast = NoRead

\* the telemetry cache at rest, for the specifications of the other components
TelemetryIdle ==
    /\ telImpl = "aggregator"
    /\ telClock = 0
    /\ metricsCache = EmptyCache
    /\ telReads = [r \in ReaderIds |-> IdleRead]
    /\ telFilled = NoFill
    /\ telLast = NoRead

\* time passes; a query to the provider has a 5 s deadline, so a read in flight
\* ends within the tick after the one it began in
TelTick ==
    /\ telClock < MaxTelClock
    /\ \A r \in ReaderIds : telReads[r].pc = "fetching" => telReads[r].start = telClock
    /\ telClock' = telClock + 1
    /\ UNCHANGED <<telImpl, metricsCache, telReads, telFilled, telLast>>
    /\ UNCHANGED <<membraneVars, marketVars, connVars, gatewayVars, negotiateVars, verifyVars>>

\* get_system_metrics / get_hive_metrics up to the first await: a cache hit
\* returns at once, a miss sends the queries
ReadBegin ==
    \E r \in ReaderIds :
        /\ telReads[r].pc = "idle"
        /\ LET cached == CacheGet(metricsCache, TimeOf(telClock), FALSE)
           IN  IF cached # NoSnapshot
               THEN /\ telLast' = [done |-> TRUE, result |-> [cached EXCEPT !.cached = TRUE],
                                   calls |-> 0, failedAll |-> FALSE,
                                   startFill |-> telFilled.snapshot,
                                   startAge |-> TimeOf(telClock) - telFilled.at,
                                   endFill |-> telFilled.snapshot]
                    \* cached["cached"] = True writes into the cached dict
                    /\ metricsCache' = IF telImpl = "monitor"
                                       THEN [metricsCache EXCEPT !.metrics.cached = TRUE]
                                       ELSE metricsCache
                    /\ UNCHANGED telReads
               ELSE /\ telReads' = [telReads EXCEPT ![r] =
                                       [pc |-> "fetching", start |-> telClock,
                                        startFill |-> telFilled]]
                    /\ UNCHANGED <<metricsCache, telLast>>
        /\ UNCHANGED <<telImpl, telClock, telFilled>>
        /\ UNCHANGED <<membraneVars, marketVars, connVars, gatewayVars, negotiateVars, verifyVars>>

\* the rest of the read, once the provider answered or the deadline passed
ReadComplete ==
    \E r \in ReaderIds, cpu_o \in Outcomes, mem_o \in Outcomes :
        /\ telReads[r].pc = "fetching"
        /\ LET time == TimeOf(telClock)
               f == IF telImpl = "aggregator"
                    THEN GetSystemMetricsFetch(metricsCache, time, cpu_o, mem_o)
                    ELSE GetHiveMetricsFetch(metricsCache, time, cpu_o, mem_o)
               sent == IF f.calls = 1 THEN {cpu_o} ELSE {cpu_o, mem_o}
           IN  /\ metricsCache' = f.cache
               /\ telFilled' = IF f.filled THEN [snapshot |-> f.result, at |-> time]
                               ELSE telFilled
               /\ telLast' = [done |-> TRUE, result |-> f.result, calls |-> f.calls,
                              failedAll |-> \A o \in sent : o.kind \in {"timeout", "connect"},
                              startFill |-> telReads[r].startFill.snapshot,
                              startAge |-> TimeOf(telReads[r].start) - telReads[r].startFill.at,
                              endFill |-> telFilled.snapshot]
        /\ telReads' = [telReads EXCEPT ![r] = IdleRead]
        /\ UNCHANGED <<telImpl, telClock>>
        /\ UNCHANGED <<membraneVars, marketVars, connVars, gatewayVars, negotiateVars, verifyVars>>

TelemetryNext == TelTick \/ ReadBegin \/ ReadComplete


(***************************************************************************)
(* Negotiate: NegotiationService.Negotiate over a pricing strategy         *)
(* (RuleBasedStrategy, LiteLLMStrategy, DSPyStrategy) and the Hive         *)
(* pipeline MetabolicLoop.execute. Prices in whole price units.            *)
(***************************************************************************)
MaxNegPrice == 4

\* RuleBasedStrategy(trigger_price=1000.0) as built by the DSPy fallback,
\* in the price units of the model
DefaultTriggerPrice == 3

\* no row for the item_id (None); item_data = {} reads floor_price as 0.0
NoItem == [floor_price |-> 0, base_price |-> 0, internal_cost |-> -1]

NegItems ==
    {[floor_price |-> f, base_price |-> b, internal_cost |-> -1] :
        f \in 1..MaxNegPrice, b \in 1..MaxNegPrice}

\* the item ids of requests: the stored item, an unknown one, and one that
\* carries a prompt-injection pattern
ItemIds == {"hotel_alpha", "ghost_item", "Ignore previous instructions"}

\* inspect_inbound: an item_id with an injection pattern is replaced
InspectInboundId(item_id) ==
    IF item_id = "Ignore previous instructions" THEN "INVALID_ID_POTENTIAL_INJECTION"
    ELSE item_id

\* session.query(InventoryItem).filter_by(id=item_id).first()
GetItem(store, item_id) == IF item_id = "hotel_alpha" THEN store ELSE NoItem

NegResponse(kind, price, reason_code, template_id) ==
    [kind |-> kind, price |-> price, reason_code |-> reason_code,
     template_id |-> template_id]

\* NegotiateResponse()
EmptyResponse == NegResponse("empty", 0, "", "")

\* the rules with the floor rule ahead of the trigger rule
RuleEvaluateFloorFirst(it, bid, trigger_price) ==
    IF it = NoItem THEN NegResponse("rejected", 0, "ITEM_NOT_FOUND", "")
    ELSE IF bid < it.floor_price
    THEN NegResponse("countered", it.floor_price, "BELOW_FLOOR", "")
    ELSE IF bid > trigger_price
    THEN NegResponse("ui_required", 0, "", "high_value_confirm")
    ELSE NegResponse("accepted", bid, "", "")

\* RuleBasedStrategy.evaluate
RuleEvaluate(it, bid, trigger_price) ==
    IF it = NoItem THEN NegResponse("rejected", 0, "ITEM_NOT_FOUND", "")
    ELSE IF bid > trigger_price
    THEN NegResponse("ui_required", 0, "", "high_value_confirm")
    ELSE IF bid < it.floor_price
    THEN NegResponse("countered", it.floor_price, "BELOW_FLOOR", "")
    ELSE NegResponse("accepted", bid, "", "")

\* what a Reasoner produces: a decision, an unparseable output (ValueError from
\* AuraNegotiator.forward) or an exception of the model call (an API or
\* connection error)
NegProposals ==
    {d \in Proposals : d.price <= MaxNegPrice + 1 /\ ~d.addon
                       /\ d.message = <<"we", "can", "meet", "your", "price">>}

ReasonerOutcomes ==
    {[kind |-> "decision", d |-> d] : d \in NegProposals}
    \cup {[kind |-> k, d |-> FailureIntent] : k \in {"ValueError", "APIError"}}

NoOutcome == [kind |-> "none", d |-> NoIntent]

\* the mapping of a decision to a NegotiateResponse in LiteLLMStrategy.evaluate
MapLlmDecision(d) ==
    IF d.action = "accept" THEN NegResponse("accepted", d.price, "", "")
    ELSE IF d.action = "counter"
    THEN NegResponse("countered", d.price, "NEGOTIATION_ONGOING", "")
    ELSE IF d.action = "reject" THEN NegResponse("rejected", 0, "OFFER_TOO_LOW", "")
    ELSE IF d.action = "ui_required"
    THEN NegResponse("ui_required", 0, "", "high_value_confirm")
    ELSE EmptyResponse

\* LiteLLMStrategy.evaluate
LiteLlmEvaluate(it, o) ==
    IF it = NoItem THEN NegResponse("rejected", 0, "ITEM_NOT_FOUND", "")
    ELSE IF o.kind # "decision" THEN NegResponse("rejected", 0, "AI_ERROR", "")
    ELSE MapLlmDecision(o.d)

\* DSPyStrategy.evaluate
DspyEvaluate(it, o, bid) ==
    IF it = NoItem THEN NegResponse("rejected", 0, "ITEM_NOT_FOUND", "")
    ELSE IF o.kind # "decision" THEN RuleEvaluate(it, bid, DefaultTriggerPrice)
    ELSE LET g == GuardEvaluateOf(o.d, it)
         IN  IF g.action = "fallback" THEN RuleEvaluate(it, bid, DefaultTriggerPrice)
             ELSE IF g.action = "accept" THEN NegResponse("accepted", g.price, "", "")
             ELSE IF g.action = "counter"
             THEN NegResponse("countered", g.price, g.reason, "")
             ELSE NegResponse("rejected", 0, "OFFER_TOO_LOW", "")

\* strategy.evaluate(item_id, bid, ...)
StrategyEvaluateOf(strategy, it, o, bid, trigger_price) ==
    IF strategy = "rule" THEN RuleEvaluate(it, bid, trigger_price)
    ELSE IF strategy = "litellm" THEN LiteLlmEvaluate(it, o)
    ELSE DspyEvaluate(it, o, bid)

\* HiveConnector.act: the safe decision as a NegotiateResponse
ConnectorResponse(d) ==
    IF d.action = "accept" THEN NegResponse("accepted", d.price, "", "")
    ELSE IF d.action = "counter"
    THEN NegResponse("countered", d.price, "NEGOTIATION_ONGOING", "")
    ELSE IF d.action = "reject" THEN NegResponse("rejected", 0, "OFFER_TOO_LOW", "")
    ELSE NegResponse("rejected", 0, "INTERNAL_ERROR", "")

NegRequests ==
    [strategy : {"rule", "litellm", "dspy", "hive"}, store : {i \in NegItems : ValidItem(i)},
     item_id : ItemIds, bid_amount : 0..(MaxNegPrice + 1),
     trigger_price : 1..MaxNegPrice, crypto : BOOLEAN]

NoCtx == [item_id |-> "", item_data |-> NoItem]

NoIntents == [outcome |-> NoOutcome, decision |-> NoIntent, safe |-> NoIntent]

NoNegOut == [status |-> "", response |-> EmptyResponse, deal |-> FALSE, published |-> 0]

\* the stages of MetabolicLoop.execute, as positions of the request
HiveStages == <<"received", "perceive", "think", "outbound", "act", "pulse">>

\* the stage order with the outbound Membrane left out
StageAfterWithoutOutbound(stage) ==
    CASE stage = "received" -> "perceive"
      [] stage = "perceive" -> "think"
      [] stage = "think" -> "act"
      [] stage = "outbound" -> "act"
      [] stage = "act" -> "pulse"
      [] OTHER -> "done"

\* the statement that follows a stage in MetabolicLoop.execute
StageAfter(stage) ==
    CASE stage = "received" -> "perceive"
      [] stage = "perceive" -> "think"
      [] stage = "think" -> "outbound"
      [] stage = "outbound" -> "act"
      [] stage = "act" -> "pulse"
      [] OTHER -> "done"

\* what nc.publish does with one event: it returns, raises one of the two
\* errors pulse catches, or raises another error
PublishOutcomes == {"ok", "ErrConnectionClosed", "ErrTimeout", "OtherError"}

\* HiveGenerator.pulse over its two events (the negotiation event and the
\* heartbeat): the number published and whether an error left pulse
PulseOf(connected, o1, o2) ==
    IF ~connected THEN [published |-> 0, raised |-> FALSE]
    ELSE IF o1 = "OtherError" THEN [published |-> 0, raised |-> TRUE]
    ELSE [published |-> (IF o1 = "ok" THEN 1 ELSE 0) + (IF o2 = "ok" THEN 1 ELSE 0),
          raised |-> o2 = "OtherError"]

NegotiateStart ==
    /\ negReq \in NegRequests
    /\ negPc = "received"
    /\ negCtx = NoCtx
    /\ negIntent = NoIntents
    /\ negOut = NoNegOut
    /\ negTrace = <<>>
    /\ negActed = NoIntent

\* no request, for the specifications of the other components
NegotiateIdle ==
    /\ negReq = [strategy |-> "rule", store |-> [NoItem EXCEPT !.floor_price = 1, !.base_price = 1],
                 item_id |-> "hotel_alpha", bid_amount |-> 1, trigger_price |-> 1,
                 crypto |-> FALSE]
    /\ negPc = "idle"
    /\ negCtx = NoCtx
    /\ negIntent = NoIntents
    /\ negOut = NoNegOut
    /\ negTrace = <<>>
    /\ negActed = NoIntent


\* NegotiationService.Negotiate over a pricing strategy: the bid check,
\* strategy.evaluate, and the crypto lock of an accepted offer; offer_ok = FALSE:
\* create_offer raised, which Negotiate does not catch
StrategyNegotiate ==
    /\ negPc = "received"
    /\ negReq.strategy # "hive"
    /\ IF negReq.bid_amount <= 0
       THEN /\ negOut' = [NoNegOut EXCEPT !.status = "INVALID_ARGUMENT"]
            /\ UNCHANGED negIntent
       ELSE LET it == GetItem(negReq.store, negReq.item_id)
            IN  \E offer_ok \in BOOLEAN :
                \E o \in (IF negReq.strategy = "rule" \/ it = NoItem THEN {NoOutcome}
                          ELSE ReasonerOutcomes) :
                    LET resp == StrategyEvaluateOf(negReq.strategy, it, o,
                                                   negReq.bid_amount, negReq.trigger_price)
                        locked == negReq.crypto /\ resp.kind = "accepted" /\ it # NoItem
                    IN  /\ negIntent' = [negIntent EXCEPT !.outcome = o]
                        /\ negOut' = IF locked /\ ~offer_ok
                                     THEN [NoNegOut EXCEPT !.status = "ERROR"]
                                     ELSE [NoNegOut EXCEPT !.status = "OK", !.response = resp,
                                                           !.deal = locked]
    /\ negPc' = "done"
    /\ UNCHANGED <<negReq, negCtx, negTrace, negActed>>
    /\ UNCHANGED <<membraneVars, marketVars, connVars, gatewayVars, telemetryVars, verifyVars>>

\* MetabolicLoop.execute step 1: membrane.inspect_inbound(signal)
HiveInbound ==
    /\ negPc = "received"
    /\ negReq.strategy = "hive"
    /\ IF negReq.bid_amount <= 0
       THEN \* ValueError("Bid amount must be positive") leaves execute
            /\ negOut' = [NoNegOut EXCEPT !.status = "ERROR"]
            /\ negPc' = "done"
            /\ UNCHANGED negCtx
       ELSE /\ negCtx' = [negCtx EXCEPT !.item_id = InspectInboundId(negReq.item_id)]
            /\ negPc' = StageAfter(negPc)
            /\ UNCHANGED negOut
    /\ negTrace' = Append(negTrace, negPc)
    /\ UNCHANGED <<negReq, negIntent, negActed>>
    /\ UNCHANGED <<membraneVars, marketVars, connVars, gatewayVars, telemetryVars, verifyVars>>

\* step 2: aggregator.perceive; db_ok = FALSE: the query raised SQLAlchemyError
HivePerceive ==
    /\ negPc = "perceive"
    /\ \E db_ok \in BOOLEAN :
          negCtx' = [negCtx EXCEPT !.item_data =
                        IF db_ok THEN GetItem(negReq.store, negCtx.item_id) ELSE NoItem]
    /\ negPc' = StageAfter(negPc)
    /\ negTrace' = Append(negTrace, negPc)
    /\ UNCHANGED <<negReq, negIntent, negOut, negActed>>
    /\ UNCHANGED <<membraneVars, marketVars, connVars, gatewayVars, telemetryVars, verifyVars>>

\* step 3: transformer.think; ValueError, KeyError, TypeError and RuntimeError
\* become a FailureIntent, any other exception leaves execute
HiveThink ==
    /\ negPc = "think"
    /\ \E o \in ReasonerOutcomes :
        /\ negIntent' = [negIntent EXCEPT !.outcome = o, !.decision = o.d]
        /\ IF o.kind = "APIError"
           THEN /\ negOut' = [NoNegOut EXCEPT !.status = "ERROR"]
                /\ negPc' = "done"
           ELSE /\ negPc' = StageAfter(negPc)
                /\ UNCHANGED negOut
    /\ negTrace' = Append(negTrace, negPc)
    /\ UNCHANGED <<negReq, negCtx, negActed>>
    /\ UNCHANGED <<membraneVars, marketVars, connVars, gatewayVars, telemetryVars, verifyVars>>

\* step 4: membrane.inspect_outbound(decision, context), settings.logic.min_margin
\* at its default
HiveOutbound ==
    /\ negPc = "outbound"
    /\ negIntent' = [negIntent EXCEPT !.safe =
                        InspectOutboundOf(negIntent.decision, negCtx.item_data,
                                          DEFAULT_MIN_MARGIN)]
    /\ negPc' = StageAfter(negPc)
    /\ negTrace' = Append(negTrace, negPc)
    /\ UNCHANGED <<negReq, negCtx, negOut, negActed>>
    /\ UNCHANGED <<membraneVars, marketVars, connVars, gatewayVars, telemetryVars, verifyVars>>

\* step 5: connector.act(safe_decision, context) with _handle_crypto_lock,
\* which keeps the plain response when create_offer raises (offer_ok = FALSE);
\* the observation is returned after pulse
HiveAct ==
    /\ negPc = "act"
    /\ negActed' = negIntent.safe
    /\ \E offer_ok \in BOOLEAN :
          negOut' = [NoNegOut EXCEPT !.response = ConnectorResponse(negIntent.safe),
                                     !.deal = negIntent.safe.action = "accept"
                                              /\ negReq.crypto /\ offer_ok]
    /\ negPc' = StageAfter(negPc)
    /\ negTrace' = Append(negTrace, negPc)
    /\ UNCHANGED <<negReq, negCtx, negIntent>>
    /\ UNCHANGED <<membraneVars, marketVars, connVars, gatewayVars, telemetryVars, verifyVars>>

\* step 6: generator.pulse(observation), then return observation; an error that
\* pulse does not catch leaves execute, and the observation is not returned
HivePulse ==
    /\ negPc = "pulse"
    /\ \E connected \in BOOLEAN, o1 \in PublishOutcomes, o2 \in PublishOutcomes :
          LET p == PulseOf(connected, o1, o2)
          IN  negOut' = IF p.raised
                        THEN [negOut EXCEPT !.status = "ERROR", !.response = EmptyResponse,
                                            !.published = p.published]
                        ELSE [negOut EXCEPT !.status = "OK", !.published = p.published]
    /\ negPc' = StageAfter(negPc)
    /\ negTrace' = Append(negTrace, negPc)
    /\ UNCHANGED <<negReq, negCtx, negIntent, negActed>>
    /\ UNCHANGED <<membraneVars, marketVars, connVars, gatewayVars, telemetryVars, verifyVars>>

NegotiateNext ==
    \/ StrategyNegotiate
    \/ HiveInbound \/ HivePerceive \/ HiveThink \/ HiveOutbound \/ HiveAct \/ HivePulse

(***************************************************************************)
(* verify_payment as a function of its arguments and of what the RPC node  *)
(* answers. Amounts in units of 0.00005 of the coin.                       *)
(***************************************************************************)
\* how far a received amount is from the expected one, in units
MaxDelta == 3

\* expected amounts: 0.25, 1 and 9 coins
ExpectedAmounts == {5000, 20000, 180000}

\* a transaction on chain: its spl-memo instructions, what it transfers, to
\* whom, and whether it is finalized
ChainTxs ==
    [memos : SUBSET {"memo_deal", "memo_other"}, kind : {"SOL", "USDC"},
     amount : {e + d : e \in ExpectedAmounts, d \in (0 - MaxDelta)..MaxDelta},
     destination : {"provider", "provider_usdc_account", "attacker"},
     finalized : BOOLEAN]

\* what the RPC node does with the requests of one verify_payment
RpcOutcomes == {"ok", "RequestError", "HTTPStatusError", "rpc_error"}

PayCalls ==
    {c \in [amount : ExpectedAmounts, currency : {"SOL", "USDC"}, tx : ChainTxs,
            rpc : RpcOutcomes] :
        Abs(c.tx.amount - c.amount) <= MaxDelta}

\* the transaction as the checks of the provider read it: the change of the
\* provider's own balance (SOL), the spl-token transfers to its associated
\* token account (USDC, any other destination is skipped)
TxDetail(tx) ==
    IF tx.kind = "SOL"
    THEN [memos |-> tx.memos, currency |-> "SOL",
          amount |-> IF tx.destination = "provider" THEN tx.amount ELSE 0]
    ELSE IF tx.destination = "provider_usdc_account"
    THEN [memos |-> tx.memos, currency |-> "USDC", amount |-> tx.amount]
    ELSE [memos |-> tx.memos, currency |-> "none", amount |-> 0]

\* getSignaturesForAddress / getTransaction with commitment "finalized"
FinalizedChain(tx) == IF tx.finalized THEN <<TxDetail(tx)>> ELSE <<>>

\* SolanaProvider.verify_payment(amount, memo, currency) with its except clauses
VerifyPaymentCall(c) ==
    IF c.rpc # "ok" THEN NoProof
    ELSE VerifyPayment(FinalizedChain(c.tx), c.amount, "memo_deal", c.currency)

VerifyStart ==
    /\ payIn \in PayCalls
    /\ payProof = [returned |-> FALSE, proof |-> NoProof]

\* no call, for the specifications of the other components
VerifyIdle ==
    /\ payIn = [amount |-> 5000, currency |-> "SOL", rpc |-> "ok",
                tx |-> [memos |-> {}, kind |-> "SOL", amount |-> 5000,
                        destination |-> "provider", finalized |-> FALSE]]
    /\ payProof = [returned |-> FALSE, proof |-> NoProof]

\* one call of verify_payment
Verify ==
    /\ ~payProof.returned
    /\ payProof' = [returned |-> TRUE, proof |-> VerifyPaymentCall(payIn)]
    /\ UNCHANGED payIn
    /\ UNCHANGED <<membraneVars, marketVars, connVars, gatewayVars, telemetryVars,
                   negotiateVars>>

VerifyNext == Verify

VerifyInit ==
    VerifyStart /\ MembraneIdle /\ MarketIdle /\ ConnIdle /\ GatewayStart /\ TelemetryIdle
    /\ NegotiateIdle

SpecVerify == VerifyInit /\ [][VerifyNext]_vars

SettleInit ==
    SettleStart /\ MembraneIdle /\ ConnIdle /\ GatewayStart /\ TelemetryIdle /\ NegotiateIdle
    /\ VerifyIdle

SpecSettle == SettleInit /\ [][SettleNext]_vars

MembraneInit ==
    MembraneStart /\ MarketIdle /\ ConnIdle /\ GatewayStart /\ TelemetryIdle /\ NegotiateIdle /\ VerifyIdle

SpecMembrane == MembraneInit /\ [][MembraneNext]_vars

MarketInit ==
    MarketStart /\ MembraneIdle /\ ConnIdle /\ GatewayStart /\ TelemetryIdle /\ NegotiateIdle /\ VerifyIdle

ConnInit ==
    ConnStart /\ MembraneIdle /\ MarketStart /\ GatewayStart /\ TelemetryIdle /\ NegotiateIdle /\ VerifyIdle

GatewayInit ==
    GatewayStart /\ MembraneIdle /\ MarketIdle /\ ConnIdle /\ TelemetryIdle /\ NegotiateIdle /\ VerifyIdle

NegotiateInit ==
    NegotiateStart /\ MembraneIdle /\ MarketIdle /\ ConnIdle /\ GatewayStart
    /\ TelemetryIdle /\ VerifyIdle

TelemetryInit ==
    TelemetryStart /\ MembraneIdle /\ MarketIdle /\ ConnIdle /\ GatewayStart /\ NegotiateIdle /\ VerifyIdle

SpecGateway == GatewayInit /\ [][GatewayNext]_vars

SpecConn == ConnInit /\ [][ConnNext]_vars

SpecMarket == MarketInit /\ [][MarketNext]_vars

SpecTelemetry == TelemetryInit /\ [][TelemetryNext]_vars

SpecNegotiate == NegotiateInit /\ [][NegotiateNext]_vars

\* the event loop runs every coroutine that is ready to run
FairSpecMarket ==
    MarketInit /\ [][MarketNext]_vars
    /\ WF_vars(CheckStatusBegin) /\ WF_vars(CheckStatusResume)

(***************************************************************************)
(* Properties.                                                             *)
(***************************************************************************)

\* C1: an intent that left the Membrane (HiveMembrane.inspect_outbound, or
\* validate_decision and the safe counter in DSPyStrategy.evaluate) and offers
\* a price has price = 0 or price >= floor_price.
C1_PriceNeverBelowFloor ==
    (mpc = "done" /\ safe.action \in {"accept", "counter"})
        => (safe.price = 0 \/ safe.price >= item.floor_price)

\* C2: once a PAID response was returned for a deal, every later check_status
\* call on it returns that same response (status, secret, proof), without
\* calling verify_payment.
C2_PaidIsFinal ==
    lastResp.afterPaid =>
        /\ lastResp.resp = paidSeen[lastResp.deal]
        /\ lastResp.resp.status = "PAID"
        /\ ~lastResp.verified

\* C2 witness: a call made after the deal's expiry, on a deal that had been
\* returned PAID, came back PAID.
C2_Witness ==
    /\ lastResp.afterPaid /\ lastResp.pastExpiry
    /\ lastResp.resp.status = "PAID"
    /\ lastResp.resp.reservation_code = SecretOf(lastResp.deal)

\* C3: a call that reads a PENDING row with now > expires_at leaves the row
\* EXPIRED and returns EXPIRED; a call that reads an EXPIRED row returns EXPIRED
\* without verifying; an EXPIRED row never changes again.
C3_ExpiryInv ==
    /\ (lastResp.preStatus = "PENDING" /\ lastResp.pastExpiry) =>
            /\ lastResp.resp.status = "EXPIRED"
            /\ deals[lastResp.deal].status = "EXPIRED"
    /\ lastResp.preStatus = "EXPIRED" =>
            /\ lastResp.resp.status = "EXPIRED"
            /\ ~lastResp.verified

C4_LockWaiterReturns ==
    \A c \in CallIds : (calls[c].pc = "blocked") ~> (calls[c].pc = "idle")

\* C5: with crypto enabled and a Market configured, an accepted response of the
\* Connector carries payment instructions and no reservation code.
C5_AcceptedIsLocked ==
    (conn.pc = "done" /\ settings.enabled /\ settings.market
        /\ conn.response.kind = "accepted")
        => /\ conn.response.crypto_payment # NoInstructions
           /\ conn.response.reservation_code = NoCode

\* C6: a response carries the secret only with status PAID, and a deal is PAID
\* only with the hash of a finalized transaction that carries the deal's own
\* memo and its currency and amount.
C6_SecretOnlyAfterPayment ==
    /\ lastResp.resp.reservation_code # NoSecret => lastResp.resp.status = "PAID"
    /\ \A d \in DealIds :
          deals[d].status = "PAID" =>
            /\ deals[d].transaction_hash \in 1..Len(chain)
            /\ LET tx == chain[deals[d].transaction_hash]
               IN  /\ deals[d].payment_memo \in tx.memos
                   /\ tx.currency = deals[d].currency
                   /\ Abs(tx.amount - deals[d].final_price) < AMOUNT_TOLERANCE

\* C6 witness: the secret was returned for a deal whose payment came after a
\* transfer that did not pay it.
C6_Witness ==
    /\ lastResp.resp.status = "PAID"
    /\ lastResp.resp.reservation_code = SecretOf(lastResp.deal)
    /\ lastResp.resp.transaction_hash > 1
    /\ ~IsMatchingPayment(chain[1], DealAmount, MemoOf(lastResp.deal), Currency)

\* C7: a call on a PENDING deal made while now <= expires_at, with the deal's
\* payment on chain when the call starts and every RPC answered, returns PAID.
C7_PaymentOnChainIsFound ==
    (lastResp.verified /\ lastResp.rpcOk /\ lastResp.matchAtStart /\ ~lastResp.pastExpiry)
        => lastResp.resp.status = "PAID"

\* the message verify_signature has to find signed for the request on the wire
WireMessage ==
    Message(wire.method, wire.path, wire.x_timestamp,
            IF wire.body = EmptyBody THEN Sha256(EmptyBody)
            ELSE Sha256(JsonDumps(JsonLoads(wire.body).value)))

\* the request on the wire carries the agent's signature and differs from the
\* request the agent signed in method, path, timestamp or (parsed) body
Tampered ==
    /\ gwOut.presented
    /\ signedReq # NoSigned
    /\ wire.x_signature = signedReq.x_signature
    /\ \/ wire.method # signedReq.method
       \/ wire.path # signedReq.path
       \/ wire.x_timestamp # signedReq.x_timestamp
       \/ JsonLoads(wire.body) # [error |-> "", value |-> signedReq.body.content]

C10_ForwardedDidIsVerified ==
    gwOut.forwarded =>
        /\ gwOut.admitted
        /\ gwOut.forwarded_did = wire.x_agent_id
        /\ wire.x_signature = Sign(VerifyKeyOf(gwOut.forwarded_did), WireMessage)

\* C10 witness: a request whose body names another agent's DID was forwarded.
C10_Witness ==
    /\ gwOut.forwarded
    /\ JsonLoads(wire.body).value.agent_did # wire.x_agent_id

\* a signature header of the request on the wire is missing, or the body parses
\* and X-Signature is not a signature of the X-Agent-ID key over the request's
\* message (a body that does not parse has no message to verify: see C8)
SignatureMissingOrInvalid ==
    \/ wire.x_agent_id = "" \/ wire.x_timestamp.kind = "missing"
    \/ wire.x_signature.kind = "missing"
    \/ /\ (wire.body = EmptyBody \/ JsonLoads(wire.body).error = "")
       /\ \/ ~ValidateDidFormat(wire.x_agent_id)
          \/ VerifyKeyOf(wire.x_agent_id) = "ValueError"
          \/ wire.x_signature # Sign(VerifyKeyOf(wire.x_agent_id), WireMessage)

\* C11: a request to /v1/negotiate, /v1/search or /v1/system/status whose
\* signature headers are missing or do not verify is answered 401 and no RPC
\* is issued to Core for it.
C11_UnsignedIs401 ==
    (gwOut.presented /\ SignatureMissingOrInvalid)
        => (gwOut.status = 401 /\ ~gwOut.rpc)

\* C12: no message of an Intent or response that left the Membrane (the Hive's
\* inspect_outbound or the guard path of DSPyStrategy.evaluate) contains
\* "floor_price" in any letter case.
C12_NoFloorPriceInMessage ==
    mpc = "done" => ~HasFloorPrice(Lower(safe.message))

\* the minimum margin in force on the path the Intent took, in percent:
\* settings.logic.min_margin after its range check, or safety.min_profit_margin
MarginInForce ==
    IF safe.via = "hive" THEN EffectiveMargin(min_margin) ELSE min_profit_margin

\* C13: an accept that left the Membrane, for an item with internal_cost > 0,
\* has (price - internal_cost) / price >= min_margin.
C13_AcceptKeepsRevenueMargin ==
    (mpc = "done" /\ safe.action = "accept" /\ item.internal_cost > 0)
        => (safe.price - item.internal_cost) * 100 >= MarginInForce * safe.price

\* C14: a counter that left the Membrane (passed on, or written by the Hive's
\* override or by the guard path's safe counter-offer) has
\* price >= floor_price * 1.05, whatever min_margin is configured.
C14_CounterAboveSafeMarkup ==
    (mpc = "done" /\ safe.action = "counter")
        => safe.price * 100 >= item.floor_price * SafeMarkup

\* C15: an accept or counter that left the Membrane has
\* (base_price - price) / base_price <= max_discount_percent.
C15_DiscountWithinLimit ==
    (mpc = "done" /\ safe.action \in {"accept", "counter"})
        => (item.base_price - safe.price) * 100 <= max_discount_percent * item.base_price

\* the same cpu, memory, status and timestamp
SameReading(a, b) ==
    /\ a.cpu_usage_percent = b.cpu_usage_percent
    /\ a.memory_usage_mb = b.memory_usage_mb
    /\ a.status = b.status
    /\ a.timestamp = b.timestamp

C17_StaleOrUnknown ==
    (telLast.done /\ telLast.failedAll) =>
        IF telLast.endFill # NoSnapshot
        THEN /\ SameReading(telLast.result, telLast.endFill)
             /\ telLast.result.cached /\ telLast.result.warning = "stale_data"
        ELSE /\ telLast.result.status = "UNKNOWN"
             /\ telLast.result.cpu_usage_percent = 0
             /\ telLast.result.memory_usage_mb = 0

\* a request served by RuleBasedStrategy for an item of the store
RuleServed ==
    /\ negPc = "done" /\ negReq.strategy = "rule" /\ negOut.status = "OK"
    /\ negReq.item_id = "hotel_alpha"

\* the three rules of RuleBasedStrategy.evaluate in strict priority
RulePriority ==
    LET bid == negReq.bid_amount
        floor == negReq.store.floor_price
        r == negOut.response
    IN  IF bid > negReq.trigger_price
        THEN r.kind = "ui_required" /\ r.template_id = "high_value_confirm"
        ELSE IF bid < floor
        THEN r.kind = "countered" /\ r.price = floor /\ r.reason_code = "BELOW_FLOOR"
        ELSE r.kind = "accepted" /\ r.price = bid

AcceptedAtBid ==
    negOut.response.kind = "accepted" /\ negOut.response.price = negReq.bid_amount

\* C18 as stated: for an existing item RuleBasedStrategy.evaluate decides by
\* strict priority (trigger rule, floor rule, accept at the bid), and a bid equal
\* to floor_price and a bid equal to trigger_price are accepted at the bid.
C18_RulesAndBoundariesAccepted ==
    RuleServed =>
        /\ RulePriority
        /\ negReq.bid_amount = negReq.store.floor_price => AcceptedAtBid
        /\ negReq.bid_amount = negReq.trigger_price => AcceptedAtBid

\* C18 amended: the strict priority holds; a bid equal to floor_price and a bid
\* equal to trigger_price are accepted at the bid when floor_price <=
\* trigger_price; when floor_price > trigger_price, bid = floor_price gives
\* ui_required and bid = trigger_price gives a counter at floor_price.
C18_RulesInPriority ==
    RuleServed =>
        LET bid == negReq.bid_amount
            floor == negReq.store.floor_price
            r == negOut.response
        IN  /\ RulePriority
            /\ floor <= negReq.trigger_price =>
                  /\ bid = floor => AcceptedAtBid
                  /\ bid = negReq.trigger_price => AcceptedAtBid
            /\ floor > negReq.trigger_price =>
                  /\ bid = floor => r.kind = "ui_required"
                  /\ bid = negReq.trigger_price =>
                        (r.kind = "countered" /\ r.price = floor)

\* C18 witness: a bid above trigger_price and below floor_price got ui_required.
C18_Witness ==
    /\ RuleServed
    /\ negReq.bid_amount > negReq.trigger_price
    /\ negReq.bid_amount < negReq.store.floor_price
    /\ negOut.response.kind = "ui_required"

\* C19: a request with bid > 0 whose item_id is not in the item store (also one
\* replaced by the injection sentinel) ends without error as rejected with
\* ITEM_NOT_FOUND, no deal is created, and in the Hive the Intent that leaves
\* the Membrane is a reject with price 0.
C19_MissingItemIsRejected ==
    (negPc = "done" /\ negReq.bid_amount > 0 /\ negReq.item_id # "hotel_alpha") =>
        /\ negOut.status = "OK"
        /\ negOut.response.kind = "rejected"
        /\ negOut.response.reason_code = "ITEM_NOT_FOUND"
        /\ ~negOut.deal
        /\ negReq.strategy = "hive" =>
              (negIntent.safe.action = "reject" /\ negIntent.safe.price = 0)

\* C20: when the Reasoner fails on a request for an item of the store (an
\* exception of the model call or an unparseable output), the RPC succeeds with
\* a counter at floor_price * 1.05 (to the cent), and in the Hive with override
\* reason FAILURE_RECOVERY.
C20_FailureIsSafeCounter ==
    (negPc = "done" /\ negIntent.outcome.kind \in {"ValueError", "APIError"}
        /\ (negReq.strategy = "hive" => negCtx.item_data # NoItem)) =>
        /\ negOut.status = "OK"
        /\ negOut.response.kind = "countered"
        /\ negOut.response.price = Round2(negReq.store.floor_price * SafeMarkup, 100)
        /\ negReq.strategy = "hive" => negIntent.safe.reason = "FAILURE_RECOVERY"

\* the stages that ran are the first Len(negTrace) stages of execute
RanInOrder == 
    /\ Len(negTrace) <= Len(HiveStages)
    /\ \A i \in 1..Len(negTrace) : negTrace[i] = HiveStages[i]

\* C21: within one MetabolicLoop.execute the stages run at most once each and
\* in the order inbound Membrane, perceive, think, outbound Membrane, act,
\* pulse; the Connector is called with the outbound Membrane's result; and
\* when a stage raises no later stage runs (a bid <= 0 ends the run after the
\* inbound Membrane, a Reasoner error that think does not catch after think).
C21_StagesInOrder ==
    negReq.strategy = "hive" =>
        /\ RanInOrder
        /\ negPc \notin {"received", "done"} => negPc = HiveStages[Len(negTrace) + 1]
        /\ Len(negTrace) >= 5 =>
              negActed = InspectOutboundOf(negIntent.decision, negCtx.item_data,
                                           DEFAULT_MIN_MARGIN)
        /\ (negPc = "done" /\ negReq.bid_amount <= 0) => negTrace = <<"received">>
        /\ (negPc = "done" /\ negReq.bid_amount > 0
                /\ negIntent.outcome.kind = "APIError") => Len(negTrace) = 3
        /\ (negPc = "done" /\ negReq.bid_amount > 0
                /\ negIntent.outcome.kind # "APIError") => negTrace = HiveStages

\* C21 witness: a run went through all six stages and the Connector was called
\* with an Intent the outbound Membrane had rewritten.
C21_Witness ==
    /\ negReq.strategy = "hive" /\ negPc = "done" /\ negTrace = HiveStages
    /\ negActed # negIntent.decision
    /\ negActed.reason = "FLOOR_PRICE_VIOLATION"

\* C22: a failure to publish an event (any error raised by nc.publish, or a
\* client that is not connected) never fails the request: execute returns the
\* Connector's observation unchanged.
C22_PublishFailureIsHarmless ==
    (negReq.strategy = "hive" /\ negPc = "done" /\ Len(negTrace) = 6) =>
        /\ negOut.status = "OK"
        /\ negOut.response = ConnectorResponse(negActed)

\* C23: HiveConnector.act sets the one payload the Intent's action names:
\* accept gives accepted with final_price = price, counter gives countered with
\* proposed_price = price, reject gives rejected, and ui_required gives
\* ui_required (with its template_id and context_data).
C23_PayloadByAction ==
    (conn.pc = "done" /\ settings.service = "hive") =>
        LET d == conn.decision
            r == conn.response
        IN  /\ d.action = "accept" => (r.kind = "accepted" /\ r.price = d.price)
            /\ d.action = "counter" => (r.kind = "countered" /\ r.price = d.price)
            /\ d.action = "reject" => r.kind = "rejected"
            /\ d.action = "ui_required" => r.kind = "ui_required"

\* C25: the amount of a deal created for an accepted offer, in the LockedDeal
\* row and in the payment instructions, is final_price in USD divided by the
\* rate of the configured currency, on the Connector's path and on the path of
\* NegotiationService.Negotiate.
C25_AmountIsConverted ==
    (conn.pc = "done" /\ conn.response.crypto_payment # NoInstructions) =>
        LET amount == (conn.decision.price * AmountUnitsPerCoin)
                        \div (100 * FIXED_RATES[settings.currency])
            ins == conn.response.crypto_payment
        IN  /\ ins.amount = amount
            /\ deals[ins.deal_id].final_price = amount

\* C26: the reservation codes of accepted negotiations have at least 12
\* characters and are pairwise different, also for accepts within one second.
C26_CodesAreUnique ==
    /\ \A i \in DOMAIN conn.codes : CodeLength(conn.codes[i]) >= 12
    /\ \A i, j \in DOMAIN conn.codes : i # j => conn.codes[i] # conn.codes[j]

\* C24: verify_payment returns a proof only for a finalized transaction with a
\* memo equal to the requested memo, sent to the provider's own address (for
\* USDC its associated token account), whose amount differs from the expected
\* amount by at most 1e-4 of the expected amount; an RPC failure gives no proof.
C24_ProofOnlyForMatchingPayment ==
    (payProof.returned /\ payProof.proof.found) =>
        /\ payIn.rpc = "ok"
        /\ payIn.tx.finalized
        /\ "memo_deal" \in payIn.tx.memos
        /\ payIn.tx.kind = payIn.currency
        /\ payIn.tx.destination =
              (IF payIn.currency = "SOL" THEN "provider" ELSE "provider_usdc_account")
        /\ Abs(payIn.tx.amount - payIn.amount) * 10000 <= payIn.amount

\* C27: for an Intent whose action is reject or ui_required the Membrane (the
\* Hive's and the guard path's) applies no price rule: the Intent is not
\* rewritten into a counter, no violation is raised for it, and its action is
\* returned unchanged (on the Hive's path its price too), whatever its price,
\* the floor_price and the internal_cost.
C27_NonPriceActionsPass ==
    (mpc = "done" /\ decision.action \in {"reject", "ui_required"}) =>
        /\ safe.action = decision.action
        /\ safe.reason \notin {"FLOOR_PRICE_VIOLATION", "MIN_MARGIN_VIOLATION",
                                "GUARDRAIL_INTERVENTION"}
        /\ safe.via = "hive" => safe.price = decision.price

\* C30: inspect_outbound applied to its own result returns the same action and
\* price, for every Intent, item and min_margin setting; the safe counters at
\* floor_price * 1.05 and at floor_price / (1 - min_margin), rounded, pass its
\* floor and min-margin rules.
C30_InspectOutboundIdempotent ==
    (mpc = "done" /\ safe.via = "hive") =>
        LET again == InspectOutboundOf(safe, item, min_margin)
        IN  again.action = safe.action /\ again.price = safe.price

\* the safe counter at floor_price * 1.05 falls short of floor_price / (1 - min_margin)
MarkupBelowMargin ==
    /\ safe.reason \in {"FAILURE_RECOVERY", "FLOOR_PRICE_VIOLATION"}
    /\ safe.price * (100 - EffectiveMargin(min_margin)) < item.floor_price * 100

\* C30 amended: inspect_outbound applied to its own result keeps the action, and
\* every price it lets out passes its floor rule. It keeps the price too, except
\* for a safe counter at floor_price * 1.05 that is below floor_price /
\* (1 - min_margin): a second application rewrites that one to the counter at
\* floor_price / (1 - min_margin), MIN_MARGIN_VIOLATION. From the second
\* application on the action and the price no longer change.
C30_IdempotentFromSecond ==
    (mpc = "done" /\ safe.via = "hive") =>
        LET again == InspectOutboundOf(safe, item, min_margin)
            third == InspectOutboundOf(again, item, min_margin)
        IN  /\ again.action = safe.action
            /\ safe.action \in {"accept", "counter"} =>
                  ~FloorRuleHive(safe, item.floor_price)
            /\ MarkupBelowMargin =>
                  /\ again.reason = "MIN_MARGIN_VIOLATION"
                  /\ again.price = Round2(item.floor_price * 100,
                                          100 - EffectiveMargin(min_margin))
            /\ ~MarkupBelowMargin => again.price = safe.price
            /\ third.action = again.action /\ third.price = again.price

\* C30 witness: a floor breach was rewritten to the counter at floor_price *
\* 1.05, and a second application moves it to another price.
C30_Witness ==
    /\ mpc = "done" /\ safe.via = "hive"
    /\ safe.reason = "FLOOR_PRICE_VIOLATION"
    /\ InspectOutboundOf(safe, item, min_margin).price # safe.price

\* C28: with two CheckDealStatus calls in flight on one deal in Core's event
\* loop, the first awaiting verify_payment with the row lock held and the second
\* at the same locked SELECT, both calls return: every call that has started
\* comes back to rest, and the loop is free to serve again.
C28_BothCallsReturn ==
    \A c \in CallIds : (calls[c].pc # "idle") ~> (calls[c].pc = "idle" /\ ~LoopBlocked)

\* C29: one on-chain transaction settles at most one LockedDeal: no two PAID
\* deals carry the same transaction_hash, also when a transaction has several
\* memo instructions and the deals have equal amounts.
C29_OneTransactionOneDeal ==
    \A d, e \in SettleDealIds :
        (d # e /\ deals[d].status = "PAID" /\ deals[e].status = "PAID")
            => deals[d].transaction_hash # deals[e].transaction_hash

====
